---- MODULE Spec2Model ----
(***************************************************************************)
(* West Auction data collection and image migration.                       *)
(*                                                                         *)
(*   - scripts/fetch-by-week.js (first script): phase 1, the weekly        *)
(*     traversal fetchAllAuctionsByWeek;                                   *)
(*   - lib/logger.js (third script): phase 2, LotCollector;                *)
(*   - lib/logger.js (second script): phase 3, ImageCollector;             *)
(*   - scripts/fetch-by-week.js (second script): the S3 migration          *)
(*     (migrate, processImagesWithConcurrency, processImage,               *)
(*     uploadImageToS3, loadCheckpoint, saveCheckpoint).                   *)
(*                                                                         *)
(* Node runs one macrotask (an I/O completion, a timer, a signal) at a     *)
(* time and drains the promise jobs it caused before the next one.  The    *)
(* migration model keeps that discipline: the actions of the outside world *)
(* are guarded by Quiescent, the continuations of the program are enabled  *)
(* as soon as the promise they wait for has settled.                       *)
(***************************************************************************)
EXTENDS Integers, Sequences, FiniteSets, TLC

(***************************************************************************)
(* Bounds of the model.                                                    *)
(***************************************************************************)
\* The lot image files scanLotFiles finds, each with the destination keys of its
\* transfer units in file order: a key shared by two files, a key twice in one
\* file, a file without images.
LotLayouts ==
    { << <<1, 2>>, <<2>> >>,
      << <<1, 1>>, << >> >>,
      << << >>, <<1, 2>> >> }
\* process invocations of the migration script in SpecResume
MaxRuns == 2
\* config.MAX_UPLOAD_RETRIES in Spec and SpecResume
SmallMaxRetries == 2
\* config.CHECKPOINT_EVERY_N_IMAGES in Spec and SpecResume
SmallCheckpointEvery == 2
\* largest config.CONCURRENT_UPLOADS in Spec and SpecResume
MaxConcurrency == 2
\* units of the one lot file of SpecPool
PoolUnits == 11
\* config.CONCURRENT_UPLOADS in SpecPool
PoolSizes == {1, 5, 10}
\* phase 1: the last day END_DATE may be (day 0 is START_DATE)
MaxEndDay == 14
\* generateWeeklyRanges as a function: the latest startDate, the longest span
MaxStartDay == 6
MaxSpan == 15
\* APIClient: how long a slow fetch takes, ms
SlowFetchMs == 500
\* phase 1: auction ids the listing API may return
NumAuctionIds == 2
\* phase 1: largest data.total the listing API reports (0: the field is absent)
MaxTotal == 1
\* phase 1: runs of the script
MaxWeeklyRuns == 2
\* phase 2: auctions in auctions-weekly.json, and runs of the collector
MaxAuctions == 3
MaxLotsRuns == 3
\* phase 2: run saves a checkpoint every 10 auctions, scaled down
LotsCheckpointEvery == 2
\* phase 3: lot files under data/lots, and runs of the collector
NumLots == 3
MaxImagesRuns == 2
\* phase 2: the most lots one page of the items endpoint carries
MaxPageLots == 2
\* phase 2: the total the items endpoint reports, when it reports one
ReportedTotal == 5
\* phase 2: the distinct image URLs of the lots (each also with blanks around it)
NumUrls == 2
\* phase 2: the most image URLs one auction's lots carry
MaxImagesPerAuction == 2
\* phase 2: the most calls of saveImages in one run
MaxSaveCalls == 2
\* phase 2: the runs of the URL log
MaxUrlRuns == 2
\* phase 2: MAX_PAGES of fetchLotsForAuction
MAX_PAGES == 50
\* phase 2: CONFIG.MAX_RETRIES
LOTS_MAX_RETRIES == 3
\* phase 3: batchSize of run, 100, scaled down
ImagesBatchSize == 2
\* phase 3: CONFIG.MAX_RETRIES
IMAGES_MAX_RETRIES == 3
\* units of the one lot file of SpecRetry
RetryUnits == 3
\* makeRequest: answers the server has ready for one call
ClientAnswersLen == 5
\* the documented configuration: a checkpoint every 50 images, 3 retries
DefaultCheckpointEvery == 50
DefaultMaxRetries == 3
\* failures kept by saveCheckpoint: failures.slice(-1000), scaled down
FailuresKept == 2

Range(f) == {f[x] : x \in DOMAIN f}
Keys == UNION {UNION {Range(l[f]) : f \in DOMAIN l} : l \in LotLayouts}

VARIABLES
    \* ---- migration (fetch-by-week.js, second script) ----
    proc,               \* "running" | "exited0" | "exited1" | "killed"
    run,                \* number of the process invocation
    pc,                 \* where migrate() stands
    config,             \* the imported config object (migration settings)
    faults,             \* whether the source and the bucket may fail requests
    lotData,            \* lot file -> its transfer units' destination keys
    s3,                 \* keys present in the bucket
    disk,               \* the checkpoint file
    writes,             \* fs.writeFile calls of saveCheckpoint in flight
    checkpoint,         \* the global checkpoint object
    shutdownRequested,
    timer,              \* the 5 s timer of the shutdown handler
    toProcess,          \* lotFilesToProcess
    i,                  \* loop index of migrate (1-based)
    images,             \* units of the lot file in hand
    index,              \* processImagesWithConcurrency: next unit (0-based count)
    inFlight,           \* processImagesWithConcurrency: the promise set
    results,            \* processImagesWithConcurrency: results
    unit,               \* per unit: the state of its processImage call
    raceWon,            \* a promise of the awaited Promise.race has settled
    lastSaved           \* history: the data of the last completed save

varsM == <<proc, run, pc, config, faults, lotData, s3, disk, writes, checkpoint,
           shutdownRequested, timer, toProcess, i, images, index, inFlight, results,
           unit, raceWon, lastSaved>>

    \* ---- phase 1, fetchAllAuctionsByWeek (fetch-by-week.js, first script) ----
VARIABLES
    weeklyEnv,          \* END_DATE and what the listing API answers per window
    weekly,             \* the locals of fetchAllAuctionsByWeek, and the exit code
    outputFile          \* data/auctions-weekly.json

varsW == <<weeklyEnv, weekly, outputFile>>

    \* ---- phase 2, LotCollector (logger.js, third script) ----
VARIABLES
    lotsEnv,            \* auctions-weekly.json and what the items API answers
    lotCollector,       \* the LotCollector object and the locals of run()
    lotsDisk            \* data/auctions, data/lots, data/lots-checkpoint.json

varsL == <<lotsEnv, lotCollector, lotsDisk>>

    \* ---- phase 3, ImageCollector (logger.js, second script) ----
VARIABLES
    imageCollector,     \* the ImageCollector object and the locals of run()
    imagesDisk          \* lot files, *_images.json files, data/images-checkpoint.json,
                        \* and whether the data directory rejects writes (disk full)

varsI == <<imageCollector, imagesDisk>>

    \* ---- APIClient.makeRequest (api client of the collection scripts) ----
VARIABLES
    client              \* one makeRequest call: the server's answers and the loop

varsC == <<client>>

    \* ---- generateWeeklyRanges (fetch-by-week.js, first script), as a function ----
VARIABLES
    rangesCall          \* one call: its arguments and, once returned, its result

varsR == <<rangesCall>>

varsOther == <<varsW, varsL, varsI, varsC, varsR>>

vars == <<varsM, varsW, varsL, varsI, varsC, varsR>>

(***************************************************************************)
(* Configuration read from config.js (fetch-by-week.js:335-345).           *)
(***************************************************************************)
CONCURRENT_UPLOADS == config.CONCURRENT_UPLOADS
CHECKPOINT_EVERY_N_IMAGES == config.CHECKPOINT_EVERY_N_IMAGES
MAX_RETRIES == config.MAX_UPLOAD_RETRIES

(***************************************************************************)
(* Helpers.                                                                *)
(***************************************************************************)
Min(a, b) == IF a < b THEN a ELSE b

\* Array.prototype.slice(-n)
SliceLast(s, n) == IF Len(s) <= n THEN s ELSE SubSeq(s, Len(s) - n + 1, Len(s))

SumLen(f) ==
    LET RECURSIVE Go(_)
        Go(k) == IF k = 0 THEN 0 ELSE Len(f[k]) + Go(k - 1)
    IN  Go(Len(f))

\* let checkpoint = {...}  (fetch-by-week.js:349)
EmptyCheckpoint ==
    [processedLotFiles |-> {}, uploadedImages |-> {}, successfulUploads |-> 0,
     failedUploads |-> 0, skippedUploads |-> 0, totalImages |-> 0,
     totalLotFiles |-> 0, failures |-> <<>>, bytesTransferred |-> 0]

IdleUnit == [st |-> "idle", retryCount |-> 0, status |-> "none", fetches |-> 0,
             notFoundAt |-> 0]

totalProcessed ==
    checkpoint.successfulUploads + checkpoint.failedUploads + checkpoint.skippedUploads

\* the object saveCheckpoint serialises
CheckpointData(c) == [c EXCEPT !.failures = SliceLast(c.failures, FailuresKept)]

\* saveCheckpoint up to its await: the data is built and fs.writeFile is called
IssueWrite(c, awaiter) ==
    Append(writes, [data |-> CheckpointData(c), awaiter |-> awaiter])

RemoveAt(s, k) == [n \in 1..(Len(s) - 1) |-> IF n < k THEN s[n] ELSE s[n + 1]]

Resolved == {j \in 1..Len(unit) : unit[j].st = "resolved"}

MainRunnable ==
    \/ pc \in {"loop", "pool", "mark"}
    \/ pc = "awaitRace" /\ raceWon
    \/ pc = "awaitAll" /\ inFlight = {}

\* no promise job is pending: the event loop takes the next macrotask
Quiescent == proc = "running" /\ Resolved = {} /\ ~MainRunnable

\* The process ends with fs.writeFile calls in flight.  writeFile opens the file
\* with flag 'w', which truncates it, and writes the data afterwards: a call that
\* is cut short leaves the old content, or a file without a complete checkpoint.
Abandoned(d) ==
    IF writes = <<>> THEN {d} ELSE {d, [state |-> "torn", data |-> EmptyCheckpoint]}

(***************************************************************************)
(* Initial state: the module-level state of the migration script.          *)
(***************************************************************************)
FreshMemory ==
    /\ pc = "start"
    /\ checkpoint = EmptyCheckpoint
    /\ shutdownRequested = FALSE
    /\ timer = "off"
    /\ toProcess = <<>>
    /\ i = 1
    /\ images = <<>>
    /\ index = 0
    /\ inFlight = {}
    /\ results = <<>>
    /\ unit = <<>>
    /\ raceWon = FALSE

InitM ==
    /\ proc = "running"
    /\ run = 1
    /\ config \in [CONCURRENT_UPLOADS : 1..MaxConcurrency,
                    CHECKPOINT_EVERY_N_IMAGES : {SmallCheckpointEvery},
                    MAX_UPLOAD_RETRIES : {SmallMaxRetries}]
    /\ faults = TRUE
    /\ lotData \in LotLayouts
    /\ s3 \in SUBSET Keys
    /\ disk = [state |-> "absent", data |-> EmptyCheckpoint]
    /\ writes = <<>>
    /\ lastSaved = [valid |-> FALSE, data |-> EmptyCheckpoint, killedAfter |-> FALSE]
    /\ FreshMemory

(***************************************************************************)
(* The migration script.                                                   *)
(***************************************************************************)
\* loadCheckpoint: a missing or unparsable file leaves the fresh object
loadCheckpoint(c) ==
    IF disk.state = "ok"
    THEN [c EXCEPT !.processedLotFiles = disk.data.processedLotFiles,
                   !.uploadedImages = disk.data.uploadedImages,
                   !.successfulUploads = disk.data.successfulUploads,
                   !.failedUploads = disk.data.failedUploads,
                   !.skippedUploads = disk.data.skippedUploads,
                   !.totalImages = disk.data.totalImages,
                   !.totalLotFiles = disk.data.totalLotFiles,
                   !.failures = disk.data.failures,
                   !.bytesTransferred = disk.data.bytesTransferred]
    ELSE c

\* scanLotFiles: the *_images.json files, in directory order
scanLotFiles == [k \in 1..Len(lotData) |-> k]

\* migrate, from its start to the first pass's save (or to the loop)
MigrateStart ==
    /\ UNCHANGED varsOther
    /\ proc = "running" /\ pc = "start"
    /\ LET loaded == loadCheckpoint(checkpoint)
           scanned == [loaded EXCEPT !.totalLotFiles = Len(scanLotFiles)]
           todo == SelectSeq(scanLotFiles, LAMBDA f : f \notin scanned.processedLotFiles)
       IN  /\ toProcess' = todo
           /\ IF scanned.totalImages = 0
              THEN /\ checkpoint' = [scanned EXCEPT !.totalImages = SumLen(lotData)]
                   /\ writes' = IssueWrite(checkpoint', "migrate")
                   /\ pc' = "countSave"
              ELSE /\ checkpoint' = scanned
                   /\ writes' = writes
                   /\ pc' = "loop"
    /\ i' = 1
    /\ UNCHANGED <<proc, run, config, faults, lotData, s3, disk, shutdownRequested, timer,
                   images, index, inFlight, results, unit, raceWon, lastSaved>>

\* the head of migrate's for loop; past the loop: the summary, then process.exit(0)
MigrateLoop ==
    /\ UNCHANGED varsOther
    /\ proc = "running" /\ pc = "loop"
    /\ IF i > Len(toProcess) \/ shutdownRequested
       THEN /\ proc' = "exited0"
            /\ pc' = "summary"
            /\ writes' = <<>>
            /\ disk' \in Abandoned(disk)
       ELSE /\ pc' = "extract"
            /\ UNCHANGED <<proc, writes, disk>>
    /\ UNCHANGED <<run, config, faults, lotData, s3, checkpoint, shutdownRequested,
                   timer, toProcess, i, images, index, inFlight, results, unit, raceWon,
                   lastSaved>>

\* extractImagesFromLot has read the lot file; processImagesWithConcurrency is
\* entered when it holds units
ExtractDone ==
    /\ UNCHANGED varsOther
    /\ Quiescent /\ pc = "extract"
    /\ images' = lotData[toProcess[i]]
    /\ unit' = [j \in 1..Len(images') |-> IdleUnit]
    /\ index' = 0
    /\ inFlight' = {}
    /\ results' = <<>>
    /\ raceWon' = FALSE
    /\ pc' = IF Len(images') > 0 THEN "pool" ELSE "mark"
    /\ UNCHANGED <<proc, run, config, faults, lotData, s3, disk, writes, checkpoint,
                   shutdownRequested, timer, toProcess, i, lastSaved>>

\* an admission test that lets one operation too many in
AdmitsOneMore(n) == n <= CONCURRENT_UPLOADS

\* an admission test that lets no operation in (CONCURRENT_UPLOADS = 0)
AdmitsNone(n) == FALSE

\* pool admission: inFlight.size < CONCURRENT_UPLOADS
Admits(n) == n < CONCURRENT_UPLOADS

\* how many units the inner while loop starts
RECURSIVE Admitted(_, _)
Admitted(size, left) ==
    IF Admits(size) /\ left > 0 THEN 1 + Admitted(size + 1, left - 1) ELSE 0

\* processImage without the test of checkpoint.uploadedImages
StartUnitAlwaysChecks(u, key) == [u EXCEPT !.st = "head"]

\* processImage up to its first await
StartUnit(u, key) ==
    IF key \in checkpoint.uploadedImages
    THEN [u EXCEPT !.st = "resolved", !.status = "skipped"]
    ELSE [u EXCEPT !.st = "head"]

\* a pool that goes on admitting units after a shutdown signal
AdmitsDespiteShutdown == FALSE

\* if (shutdownRequested): the pool drains and leaves its loop
DrainsOnShutdown == shutdownRequested

\* one pass of the outer while loop of processImagesWithConcurrency, up to its await
PoolStep ==
    /\ UNCHANGED varsOther
    /\ proc = "running" /\ pc = "pool"
    /\ IF ~(index < Len(images) \/ inFlight # {})
       THEN /\ pc' = "mark"
            /\ UNCHANGED <<index, inFlight, unit, checkpoint, raceWon>>
       ELSE IF DrainsOnShutdown
       THEN /\ pc' = "awaitAll"
            /\ UNCHANGED <<index, inFlight, unit, checkpoint, raceWon>>
       ELSE LET n == Admitted(Cardinality(inFlight), Len(images) - index)
                started == (index + 1)..(index + n)
            IN  /\ index' = index + n
                /\ inFlight' = inFlight \cup started
                /\ unit' = [j \in 1..Len(unit) |->
                              IF j \in started THEN StartUnit(unit[j], images[j]) ELSE unit[j]]
                /\ checkpoint' =
                     [checkpoint EXCEPT !.skippedUploads =
                        @ + Cardinality({j \in started : images[j] \in checkpoint.uploadedImages})]
                /\ raceWon' = FALSE
                /\ pc' = "awaitRace"
    /\ UNCHANGED <<proc, run, config, faults, lotData, s3, disk, writes, shutdownRequested,
                   timer, toProcess, i, images, results, lastSaved>>

\* a catch block that also marks the key as uploaded
RecordFailureMarksUploaded(c, key, err) ==
    [c EXCEPT !.failedUploads = @ + 1,
              !.failures = Append(@, [s3Key |-> key, error |-> err]),
              !.uploadedImages = @ \cup {key}]

\* processImage's catch block
RecordFailure(c, key, err) ==
    [c EXCEPT !.failedUploads = @ + 1,
              !.failures = Append(@, [s3Key |-> key, error |-> err])]

\* objectExists answers: present, absent (404), or another error, which it rethrows
HeadReply(j) ==
    /\ UNCHANGED varsOther
    /\ Quiescent /\ j \in 1..Len(unit) /\ unit[j].st = "head"
    /\ \/ /\ images[j] \in s3
          /\ checkpoint' = [checkpoint EXCEPT !.uploadedImages = @ \cup {images[j]},
                                              !.skippedUploads = @ + 1]
          /\ unit' = [unit EXCEPT ![j].st = "resolved", ![j].status = "skipped"]
       \/ /\ images[j] \notin s3
          /\ checkpoint' = checkpoint
          /\ unit' = [unit EXCEPT ![j].st = "fetch", ![j].fetches = 1]
       \/ /\ faults
          /\ checkpoint' = RecordFailure(checkpoint, images[j], "error")
          /\ unit' = [unit EXCEPT ![j].st = "resolved", ![j].status = "failed"]
    /\ UNCHANGED <<proc, run, pc, config, faults, lotData, s3, disk, writes,
                   shutdownRequested, timer, toProcess, i, images, index, inFlight, results,
                   raceWon, lastSaved>>

\* a catch block that gives up one retry early
RetriesOnceLess(retryCount, err) == retryCount + 1 < MAX_RETRIES

\* a catch block that allows one retry more
RetriesOnceMore(retryCount, err) == retryCount <= MAX_RETRIES

\* uploadImageToS3's catch block: whether the error is retried
Retries(retryCount, err) == retryCount < MAX_RETRIES

\* the number of the fetch that the source first answered with 404 (0: none yet)
NotFoundAt(u, err) ==
    IF err = "404" /\ u.notFoundAt = 0 THEN u.fetches ELSE u.notFoundAt

\* uploadImageToS3 has thrown err in attempt unit[j].retryCount
AttemptFailed(j, err) ==
    IF Retries(unit[j].retryCount, err)
    THEN /\ unit' = [unit EXCEPT ![j].st = "fetch", ![j].retryCount = @ + 1,
                                 ![j].fetches = @ + 1,
                                 ![j].notFoundAt = NotFoundAt(unit[j], err)]
         /\ checkpoint' = checkpoint
    ELSE /\ unit' = [unit EXCEPT ![j].st = "resolved", ![j].status = "failed",
                                 ![j].notFoundAt = NotFoundAt(unit[j], err)]
         /\ checkpoint' = RecordFailure(checkpoint, images[j], err)

\* the content-length the source announces for a key's object (0: none)
contentLength(key) == key - 1

\* One attempt of uploadImageToS3 settles: the fetch and, when the source answered
\* 200, the streaming upload (two awaits of the same call, with no effect on the
\* shared state in between).  The source answers 200 and upload.done() fulfils;
\* the source answers 404; or the attempt throws another error (another status,
\* network, timeout, upload.done() rejecting).
AttemptReply(j) ==
    /\ UNCHANGED varsOther
    /\ Quiescent /\ j \in 1..Len(unit) /\ unit[j].st = "fetch"
    /\ \/ /\ s3' = s3 \cup {images[j]}
          /\ checkpoint' = [checkpoint EXCEPT !.uploadedImages = @ \cup {images[j]},
                                              !.successfulUploads = @ + 1,
                                              !.bytesTransferred = @ + contentLength(images[j])]
          /\ unit' = [unit EXCEPT ![j].st = "resolved", ![j].status = "success"]
       \/ /\ faults
          /\ AttemptFailed(j, "404")
          /\ s3' = s3
       \/ /\ faults
          /\ AttemptFailed(j, "error")
          /\ s3' = s3
    /\ UNCHANGED <<proc, run, pc, config, faults, lotData, disk, writes,
                   shutdownRequested, timer, toProcess, i, images, index, inFlight, results,
                   raceWon, lastSaved>>

\* the .then callback of a settled processImage promise
Callback(j) ==
    /\ UNCHANGED varsOther
    /\ proc = "running" /\ Resolved # {}
    /\ j = CHOOSE m \in Resolved : \A n \in Resolved : m <= n
    /\ results' = Append(results, unit[j].status)
    /\ inFlight' = inFlight \ {j}
    /\ unit' = [unit EXCEPT ![j].st = "done"]
    /\ writes' = IF totalProcessed % CHECKPOINT_EVERY_N_IMAGES = 0
                 THEN IssueWrite(checkpoint, "none")
                 ELSE writes
    /\ raceWon' = (raceWon \/ pc = "awaitRace")
    /\ UNCHANGED <<proc, run, pc, config, faults, lotData, s3, disk, checkpoint,
                   shutdownRequested, timer, toProcess, i, images, index, lastSaved>>

\* Promise.race / Promise.all of processImagesWithConcurrency settles
PoolResume ==
    /\ UNCHANGED varsOther
    /\ proc = "running" /\ Resolved = {}
    /\ \/ /\ pc = "awaitRace" /\ raceWon
          /\ pc' = "pool"
       \/ /\ pc = "awaitAll" /\ inFlight = {}
          /\ pc' = "mark"
    /\ raceWon' = FALSE
    /\ UNCHANGED <<proc, run, config, faults, lotData, s3, disk, writes, checkpoint,
                   shutdownRequested, timer, toProcess, i, images, index, inFlight, results,
                   unit, lastSaved>>

\* checkpoint.processedLotFiles.add(lotFile); await saveCheckpoint()
MarkDone ==
    /\ UNCHANGED varsOther
    /\ proc = "running" /\ pc = "mark"
    /\ checkpoint' = [checkpoint EXCEPT !.processedLotFiles = @ \cup {toProcess[i]}]
    /\ writes' = IssueWrite(checkpoint', "migrate")
    /\ pc' = "saveWait"
    /\ UNCHANGED <<proc, run, config, faults, lotData, s3, disk, shutdownRequested, timer,
                   toProcess, i, images, index, inFlight, results, unit, raceWon, lastSaved>>

\* fs.writeFile has written the data; the caller awaiting it goes on
WriteDone(k) ==
    /\ UNCHANGED varsOther
    /\ Quiescent /\ k \in 1..Len(writes)
    /\ lastSaved' = [valid |-> TRUE, data |-> writes[k].data, killedAfter |-> FALSE]
    /\ CASE writes[k].awaiter = "migrate" ->
              /\ pc' = "loop"
              /\ i' = IF pc = "saveWait" THEN i + 1 ELSE i
              /\ writes' = RemoveAt(writes, k)
              /\ disk' = [state |-> "ok", data |-> writes[k].data]
              /\ UNCHANGED <<proc, timer>>
         [] writes[k].awaiter = "timer" ->
              /\ proc' = "exited0"
              /\ timer' = "off"
              /\ writes' = <<>>
              /\ disk' \in IF Len(writes) = 1
                            THEN {[state |-> "ok", data |-> writes[k].data]}
                            ELSE {[state |-> "ok", data |-> writes[k].data],
                                  [state |-> "torn", data |-> EmptyCheckpoint]}
              /\ UNCHANGED <<pc, i>>
         [] OTHER ->
              /\ writes' = RemoveAt(writes, k)
              /\ disk' = [state |-> "ok", data |-> writes[k].data]
              /\ UNCHANGED <<proc, timer, pc, i>>
    /\ UNCHANGED <<run, config, faults, lotData, s3, checkpoint, shutdownRequested,
                   toProcess, images, index, inFlight, results, unit, raceWon>>

\* a shutdown handler that sets the flag and arms no timer
SignalWithoutTimer ==
    /\ UNCHANGED varsOther
    /\ Quiescent /\ ~shutdownRequested
    /\ shutdownRequested' = TRUE
    /\ UNCHANGED <<proc, run, pc, config, faults, lotData, s3, disk, writes, checkpoint,
                   timer, toProcess, i, images, index, inFlight, results, unit, raceWon,
                   lastSaved>>

\* SIGINT / SIGTERM: the shutdown handler sets the flag and arms the timer
Signal ==
    /\ UNCHANGED varsOther
    /\ Quiescent /\ ~shutdownRequested
    /\ shutdownRequested' = TRUE
    /\ timer' = "armed"
    /\ UNCHANGED <<proc, run, pc, config, faults, lotData, s3, disk, writes, checkpoint,
                   toProcess, i, images, index, inFlight, results, unit, raceWon, lastSaved>>

\* the timer fires: await saveCheckpoint(), then process.exit(0)
TimerFire ==
    /\ UNCHANGED varsOther
    /\ Quiescent /\ timer = "armed"
    /\ timer' = "saving"
    /\ writes' = IssueWrite(checkpoint, "timer")
    /\ UNCHANGED <<proc, run, pc, config, faults, lotData, s3, disk, checkpoint,
                   shutdownRequested, toProcess, i, images, index, inFlight, results, unit,
                   raceWon, lastSaved>>

\* the process is killed (SIGKILL, power loss): nothing of it runs on
Kill ==
    /\ UNCHANGED varsOther
    /\ proc = "running" /\ run < MaxRuns
    /\ proc' = "killed"
    /\ writes' = <<>>
    /\ disk' \in Abandoned(disk)
    /\ pc' = "start"
    /\ checkpoint' = EmptyCheckpoint
    /\ shutdownRequested' = FALSE
    /\ timer' = "off"
    /\ toProcess' = <<>>
    /\ i' = 1
    /\ images' = <<>>
    /\ index' = 0
    /\ inFlight' = {}
    /\ results' = <<>>
    /\ unit' = <<>>
    /\ raceWon' = FALSE
    /\ lastSaved' = [lastSaved EXCEPT !.killedAfter = TRUE]
    /\ UNCHANGED <<run, config, faults, lotData, s3>>

\* the script is run again: a new process, the same disk and bucket
Restart ==
    /\ UNCHANGED varsOther
    /\ proc # "running" /\ run < MaxRuns
    /\ proc' = "running"
    /\ run' = run + 1
    /\ pc' = "start"
    /\ checkpoint' = EmptyCheckpoint
    /\ shutdownRequested' = FALSE
    /\ timer' = "off"
    /\ toProcess' = <<>>
    /\ i' = 1
    /\ images' = <<>>
    /\ index' = 0
    /\ inFlight' = {}
    /\ results' = <<>>
    /\ unit' = <<>>
    /\ raceWon' = FALSE
    /\ UNCHANGED <<config, faults, lotData, s3, disk, writes, lastSaved>>


(***************************************************************************)
(* Phase 1: fetchAllAuctionsByWeek (fetch-by-week.js, first script).       *)
(* Dates are day numbers; START_DATE is day 0.                             *)
(***************************************************************************)
START_DATE == 0

\* generateWeeklyRanges with rangeEnd = nextWeek, the cap at endDate left out
RECURSIVE generateWeeklyRangesUncapped(_, _)
generateWeeklyRangesUncapped(startDate, endDate) ==
    IF startDate <= endDate
    THEN <<[start |-> startDate, end |-> startDate + 7]>>
             \o generateWeeklyRangesUncapped(startDate + 7, endDate)
    ELSE <<>>

\* generateWeeklyRanges: 7-day windows from startDate while current <= endDate
RECURSIVE generateWeeklyRanges(_, _)
generateWeeklyRanges(startDate, endDate) ==
    IF startDate <= endDate
    THEN LET nextWeek == startDate + 7
             rangeEnd == Min(nextWeek, endDate)
         IN  <<[start |-> startDate, end |-> rangeEnd]>>
                 \o generateWeeklyRanges(nextWeek, endDate)
    ELSE <<>>

\* A call of generateWeeklyRanges with startDate <= endDate, and its return.
FreshRangesCall(startDate, endDate) ==
    [pc |-> "call", startDate |-> startDate, endDate |-> endDate, ranges |-> <<>>]

InitR ==
    \E startDate \in 0..MaxStartDay : \E span \in 0..MaxSpan :
        rangesCall = FreshRangesCall(startDate, startDate + span)

RangesReturn ==
    /\ UNCHANGED <<varsM, varsW, varsL, varsI, varsC>>
    /\ rangesCall.pc = "call"
    /\ rangesCall' = [rangesCall EXCEPT
                        !.pc = "returned",
                        !.ranges = generateWeeklyRanges(rangesCall.startDate,
                                                        rangesCall.endDate)]

NextRanges == RangesReturn

AuctionIds == 1..NumAuctionIds

\* What the listing API answers for a window: 200 with data.data (and data.total,
\* 0 when absent), 200 without data, a status that is not ok (404 included), or
\* no answer at all (fetch rejects).
Responses ==
    [kind : {"ok"}, ids : SUBSET AuctionIds, total : 0..MaxTotal]
        \cup [kind : {"nodata", "http", "network"}, ids : {{}}, total : {0}]

weeklyRanges == generateWeeklyRanges(START_DATE, weeklyEnv.END_DATE)

FreshWeekly(r, prev, done) ==
    [pc |-> "loop", run |-> r, prevExit |-> prev, completedBefore |-> done, i |-> 1,
     allAuctions |-> <<>>, weeklyStats |-> <<>>,
     perfectMatches |-> 0, partialMatches |-> 0,
     requested |-> {}, fileWrites |-> 0]

InitW ==
    /\ weeklyEnv \in
         UNION {[END_DATE : {e},
                 upstream : [1..Len(generateWeeklyRanges(START_DATE, e)) -> Responses]] :
                e \in 0..MaxEndDay}
    /\ weekly = FreshWeekly(1, "none", {})
    /\ outputFile = [exists |-> FALSE, partial |-> FALSE, auctions |-> {}]

\* allAuctions kept as an array: push instead of Map.prototype.set
MapSetAlwaysAppends(m, id, value) == Append(m, [id |-> id, value |-> value])

\* Map.prototype.set on allAuctions, a Map in insertion order
MapSet(m, id, value) ==
    IF \E k \in 1..Len(m) : m[k].id = id
    THEN [k \in 1..Len(m) |-> IF m[k].id = id THEN [id |-> id, value |-> value] ELSE m[k]]
    ELSE Append(m, [id |-> id, value |-> value])

\* data.data.forEach(auction => allAuctions.set(auction.id, auction))
RECURSIVE SetAll(_, _, _)
SetAll(m, ids, value) ==
    IF ids = {} THEN m
    ELSE LET id == CHOOSE x \in ids : \A y \in ids : x <= y
         IN  SetAll(MapSet(m, id, value), ids \ {id}, value)

MapKeys(m) == {m[k].id : k \in 1..Len(m)}

\* fetchAuctionsForRange throws: on a status that is not ok, or when fetch rejects
Throws(resp) == resp.kind \in {"http", "network"}

\* one pass of the for loop of fetchAllAuctionsByWeek; a throw leaves the loop for
\* the catch block, which saves what was collected and makes the script exit 1
WeeklyFetch ==
    /\ UNCHANGED <<varsM, varsL, varsI, varsC, varsR>>
    /\ weekly.pc = "loop" /\ weekly.i <= Len(weeklyRanges)
    /\ LET resp == weeklyEnv.upstream[weekly.i]
           asked == [weekly EXCEPT !.requested = @ \cup {weekly.i}]
       IN  IF Throws(resp)
           THEN IF Len(weekly.allAuctions) > 0
                THEN /\ outputFile' = [exists |-> TRUE, partial |-> TRUE,
                                       auctions |-> MapKeys(weekly.allAuctions)]
                     /\ weekly' = [asked EXCEPT !.pc = "exit1", !.fileWrites = @ + 1]
                ELSE /\ outputFile' = outputFile
                     /\ weekly' = [asked EXCEPT !.pc = "exit1"]
           ELSE IF resp.kind = "nodata"
           THEN /\ weekly' = [asked EXCEPT
                                !.weeklyStats = Append(@, [collected |-> 0, reported |-> 0]),
                                !.i = @ + 1]
                /\ outputFile' = outputFile
           ELSE LET collected == Cardinality(resp.ids)
                    reported == IF resp.total # 0 THEN resp.total ELSE collected
                IN  /\ weekly' = [asked EXCEPT
                          !.allAuctions = SetAll(@, resp.ids, weekly.i),
                          !.weeklyStats = Append(@, [collected |-> collected,
                                                     reported |-> reported]),
                          !.perfectMatches = IF collected = reported THEN @ + 1 ELSE @,
                          !.partialMatches =
                              IF collected # reported /\ collected > 0 THEN @ + 1 ELSE @,
                          !.i = @ + 1]
                    /\ outputFile' = outputFile
    /\ UNCHANGED weeklyEnv

\* past the loop: the output file is written, the script exits 0
WeeklyFinish ==
    /\ UNCHANGED <<varsM, varsL, varsI, varsC, varsR>>
    /\ weekly.pc = "loop" /\ weekly.i > Len(weeklyRanges)
    /\ outputFile' = [exists |-> TRUE, partial |-> FALSE,
                      auctions |-> MapKeys(weekly.allAuctions)]
    /\ weekly' = [weekly EXCEPT !.pc = "exit0", !.fileWrites = @ + 1]
    /\ UNCHANGED weeklyEnv

\* npm run fetch-auctions once more, against the same upstream
WeeklyRerun ==
    /\ UNCHANGED <<varsM, varsL, varsI, varsC, varsR>>
    /\ weekly.pc \in {"exit0", "exit1"} /\ weekly.run < MaxWeeklyRuns
    /\ weekly' = FreshWeekly(weekly.run + 1, weekly.pc,
                            weekly.completedBefore \cup (1..Len(weekly.weeklyStats)))
    /\ UNCHANGED <<weeklyEnv, outputFile>>

NextWeekly ==
    \/ WeeklyFetch
    \/ WeeklyFinish
    \/ WeeklyRerun


(***************************************************************************)
(* Phase 2: LotCollector (lib/logger.js, third script).                    *)
(* Indices are those of the code (from 0); auctions[i] is AuctionAt(i).    *)
(***************************************************************************)
auctions == lotsEnv.auctions
AuctionAt(idx) == auctions[idx + 1]

\* auctions.findIndex(a => a.id === id)
findIndex(list, id) ==
    IF \E k \in 1..Len(list) : list[k] = id
    THEN (CHOOSE k \in 1..Len(list) : list[k] = id /\ \A h \in 1..(k - 1) : list[h] # id) - 1
    ELSE -1

\* fetchLotsForAuction before it is called.  History: pagesRequested is the
\* number of distinct pages requested, attemptsOnPage the number of requests
\* for the page requested last, sawEmpty whether an empty page has been answered.
FreshPages ==
    [pc |-> "idle", currentPage |-> 0, attempt |-> 0, allLots |-> 0,
     lastPage |-> 0, pagesRequested |-> 0, attemptsOnPage |-> 0,
     firstPage |-> 0, sawEmpty |-> FALSE, afterEmpty |-> FALSE]

\* History: written is the number of lines this run has written to the stream,
\* saves the number of calls of saveImages.
FreshUrls(r) ==
    [pc |-> "init", run |-> r, recordedImages |-> {}, uniqueImages |-> 0,
     written |-> 0, saves |-> 0]

FreshLotCollector(r) ==
    [pc |-> "init", run |-> r, shouldStop |-> FALSE,
     checkpoint |-> [loaded |-> FALSE, lastProcessedAuctionId |-> 0],
     processedAuctions |-> 0, skippedAuctions |-> 0, errors |-> 0,
     i |-> 0, stopped |-> FALSE, lastProcessed |-> -1, visited |-> {},
     \* history: the auctions whose lots this run asked the items endpoint for
     fetchedLots |-> {},
     \* the locals of fetchLotsForAuction, with the history of its requests
     pages |-> FreshPages,
     \* recordedImages, stats.uniqueImages and the state of imageUrlsStream
     urls |-> FreshUrls(1)]

InitL ==
    /\ lotsEnv \in {[auctions |-> [k \in 1..n |-> 100 + k]] : n \in 1..MaxAuctions}
    /\ lotCollector = FreshLotCollector(1)
    /\ lotsDisk = [checkpoint |-> [exists |-> FALSE, lastProcessedAuctionId |-> 0],
                   auctionFiles |-> {}, lotsDirs |-> {}, imageUrls |-> <<>>]

\* LotCollector.saveCheckpoint
LotsSaveCheckpoint(d, lastProcessedAuctionId) ==
    [d EXCEPT !.checkpoint = [exists |-> TRUE,
                              lastProcessedAuctionId |-> lastProcessedAuctionId]]

auctionExists(auctionId) == auctionId \in lotsDisk.auctionFiles
lotsExist(auctionId) == auctionId \in lotsDisk.lotsDirs

\* initialize, loadAuctions and the choice of startIndex in run
LotsStart ==
    /\ UNCHANGED <<varsM, varsW, varsI, varsC, varsR>>
    /\ lotCollector.pc = "init"
    /\ LET cp == IF lotsDisk.checkpoint.exists
                 THEN [loaded |-> TRUE,
                       lastProcessedAuctionId |-> lotsDisk.checkpoint.lastProcessedAuctionId]
                 ELSE lotCollector.checkpoint
           startIndex == IF cp.loaded
                         THEN findIndex(auctions, cp.lastProcessedAuctionId) + 1
                         ELSE 0
       IN  lotCollector' = [lotCollector EXCEPT !.pc = "loop", !.checkpoint = cp,
                                                !.i = startIndex]
    /\ UNCHANGED <<lotsEnv, lotsDisk>>

\* processAuction: the disk and the counters after it, for an outcome of saveAuction
\* (saved or not) and of fetchLotsForAuction ("lots", "empty", "error")
processAuction(auctionId, saved, fetched) ==
    IF auctionExists(auctionId) /\ lotsExist(auctionId)
    THEN [disk |-> lotsDisk, skipped |-> 1, errors |-> 0]
    ELSE LET writeFailed == ~auctionExists(auctionId) /\ ~saved
             d1 == IF auctionExists(auctionId) \/ ~saved THEN lotsDisk
                   ELSE [lotsDisk EXCEPT !.auctionFiles = @ \cup {auctionId}]
             e1 == IF writeFailed THEN 1 ELSE 0
         IN  CASE fetched = "empty" -> [disk |-> d1, skipped |-> 1, errors |-> e1]
               [] fetched = "error" -> [disk |-> d1, skipped |-> 0, errors |-> e1 + 1]
               [] OTHER -> [disk |-> [d1 EXCEPT !.lotsDirs = @ \cup {auctionId}],
                            skipped |-> 0, errors |-> e1]

\* one pass of the for loop of run, or its end: the loop condition fails, or
\* shouldStop breaks it
LotsStep ==
    /\ UNCHANGED <<varsM, varsW, varsI, varsC, varsR>>
    /\ lotCollector.pc = "loop"
    /\ IF lotCollector.i >= Len(auctions)
       THEN /\ lotCollector' = [lotCollector EXCEPT !.pc = "final"]
            /\ UNCHANGED lotsDisk
       ELSE IF lotCollector.shouldStop
       THEN /\ lotCollector' = [lotCollector EXCEPT !.pc = "final", !.stopped = TRUE]
            /\ UNCHANGED lotsDisk
       ELSE \E saved \in BOOLEAN, fetched \in {"lots", "empty", "error"} :
              LET auction == AuctionAt(lotCollector.i)
                  r == processAuction(auction, saved, fetched)
              IN  /\ lotCollector' = [lotCollector EXCEPT
                         !.processedAuctions = @ + 1,
                         !.skippedAuctions = @ + r.skipped,
                         !.errors = @ + r.errors,
                         !.lastProcessed = lotCollector.i,
                         !.visited = @ \cup {auction},
                         !.fetchedLots =
                             IF auctionExists(auction) /\ lotsExist(auction)
                             THEN @ ELSE @ \cup {auction},
                         !.i = @ + 1]
                  /\ lotsDisk' = IF (lotCollector.i + 1) % LotsCheckpointEvery = 0
                                 THEN LotsSaveCheckpoint(r.disk, auction)
                                 ELSE r.disk
    /\ UNCHANGED lotsEnv

\* after the loop: the final checkpoint, the report, and the process ends
LotsFinal ==
    /\ UNCHANGED <<varsM, varsW, varsI, varsC, varsR>>
    /\ lotCollector.pc = "final"
    /\ lotsDisk' = IF lotCollector.processedAuctions > 0
                   THEN LotsSaveCheckpoint(lotsDisk, AuctionAt(Len(auctions) - 1))
                   ELSE lotsDisk
    /\ lotCollector' = [lotCollector EXCEPT !.pc = "done"]
    /\ UNCHANGED lotsEnv

\* SIGINT or SIGTERM: setupGracefulShutdown's handler
LotsSignal ==
    /\ UNCHANGED <<varsM, varsW, varsI, varsC, varsR>>
    /\ lotCollector.pc \in {"init", "loop", "final"}
    /\ ~lotCollector.shouldStop
    /\ lotCollector' = [lotCollector EXCEPT !.shouldStop = TRUE]
    /\ UNCHANGED <<lotsEnv, lotsDisk>>

\* npm run collect-lots once more
LotsRerun ==
    /\ UNCHANGED <<varsM, varsW, varsI, varsC, varsR>>
    /\ lotCollector.pc = "done" /\ lotCollector.run < MaxLotsRuns
    /\ lotCollector' = FreshLotCollector(lotCollector.run + 1)
    /\ UNCHANGED <<lotsEnv, lotsDisk>>

\* what one fetch of the items endpoint can bring: a failure (network error,
\* status not ok, body not JSON), or a body with data (len lots; 0 also stands
\* for a body without data), total and total_pages (0: the field is absent)
PageReplies ==
    {[ok |-> FALSE, len |-> 0, total |-> 0, total_pages |-> 0]} \cup
    [ok : {TRUE}, len : 0..MaxPageLots, total : {0, ReportedTotal},
     total_pages : {0, 2, MAX_PAGES + 1}]

\* the catch block of an attempt that never throws
ThrowsNever(attempt) == FALSE

\* the catch block of an attempt: if (attempt === CONFIG.MAX_RETRIES) throw err
ThrowsAt(attempt) == attempt = LOTS_MAX_RETRIES

\* while (currentPage <= MAX_PAGES), entered with attempt = 0
WhilePage(p, currentPage) ==
    IF currentPage <= MAX_PAGES
    THEN [p EXCEPT !.currentPage = currentPage, !.attempt = 0, !.pc = "request"]
    ELSE [p EXCEPT !.currentPage = currentPage, !.pc = "returned"]

\* processAuction calls fetchLotsForAuction: allLots = [], currentPage = 1
FetchLotsCall ==
    /\ UNCHANGED <<varsM, varsW, varsI, varsC, varsR>>
    /\ lotCollector.pages.pc = "idle"
    /\ lotCollector' = [lotCollector EXCEPT !.pages = WhilePage(FreshPages, 1)]
    /\ UNCHANGED <<lotsEnv, lotsDisk>>

\* one attempt of the for loop of fetchLotsForAuction: the fetch and what follows
\* it up to the next fetch, the return or the throw
FetchLotsAttempt ==
    /\ UNCHANGED <<varsM, varsW, varsI, varsC, varsR>>
    /\ lotCollector.pages.pc = "request"
    /\ \E reply \in PageReplies :
         LET p0 == lotCollector.pages
             p == [p0 EXCEPT
                     !.lastPage = p0.currentPage,
                     !.firstPage = IF p0.pagesRequested = 0 THEN p0.currentPage ELSE @,
                     !.pagesRequested = IF p0.currentPage = p0.lastPage THEN @ ELSE @ + 1,
                     !.attemptsOnPage = IF p0.currentPage = p0.lastPage THEN @ + 1 ELSE 1,
                     !.afterEmpty = p0.sawEmpty,
                     !.sawEmpty = @ \/ (reply.ok /\ reply.len = 0)]
             all == p.allLots + reply.len
         IN  lotCollector' = [lotCollector EXCEPT !.pages =
                 IF ~reply.ok
                 THEN IF ThrowsAt(p.attempt)
                      THEN [p EXCEPT !.pc = "thrown"]
                      ELSE IF p.attempt + 1 <= LOTS_MAX_RETRIES
                      THEN [p EXCEPT !.attempt = @ + 1]
                      ELSE WhilePage(p, p.currentPage)
                 ELSE IF reply.len = 0
                 THEN [p EXCEPT !.pc = "returned"]
                 ELSE IF reply.total # 0 /\ all >= reply.total
                 THEN [p EXCEPT !.allLots = all, !.pc = "returned"]
                 ELSE IF reply.total_pages = 0 \/ p.currentPage >= reply.total_pages
                 THEN [p EXCEPT !.allLots = all, !.pc = "returned"]
                 ELSE WhilePage([p EXCEPT !.allLots = all], p.currentPage + 1)]
    /\ UNCHANGED <<lotsEnv, lotsDisk>>

\* An image URL as the upstream sends it: a string, which may carry blanks at
\* its ends.  name is the string without them.
Urls == [name : 1..NumUrls, blanks : BOOLEAN]

\* String.prototype.trim
trim(url) == [url EXCEPT !.blanks = FALSE]

\* the lists extractImagesFromLots can return for the lots of one auction
ImageLists ==
    UNION {[1..n -> Urls] : n \in 0..MaxImagesPerAuction}

\* initialize: the lines of image-urls.txt, each trimmed, are added to
\* recordedImages (a line is the url as saveImages wrote it)
RecordedFromFile(lines) == {trim(lines[k]) : k \in 1..Len(lines)}

\* initialize: the part that loads image-urls.txt and opens the stream
UrlLogInitialize ==
    /\ UNCHANGED <<varsM, varsW, varsI, varsC, varsR>>
    /\ lotCollector.urls.pc = "init"
    /\ lotCollector' = [lotCollector EXCEPT
           !.urls.recordedImages = RecordedFromFile(lotsDisk.imageUrls),
           !.urls.pc = "open"]
    /\ UNCHANGED <<lotsEnv, lotsDisk>>

\* the loop of saveImages over images[k..]: u is [recordedImages, uniqueImages,
\* written], file the lines of image-urls.txt
RECURSIVE saveImages(_, _, _, _)
saveImages(u, file, imgs, k) ==
    IF k > Len(imgs)
    THEN [urls |-> u, file |-> file]
    ELSE IF imgs[k] \notin u.recordedImages
    THEN saveImages([u EXCEPT !.recordedImages = @ \cup {imgs[k]},
                              !.uniqueImages = @ + 1, !.written = @ + 1],
                    Append(file, imgs[k]), imgs, k + 1)
    ELSE saveImages(u, file, imgs, k + 1)

\* processAuction calls saveImages with the images of an auction's lots
UrlLogSaveImages ==
    /\ UNCHANGED <<varsM, varsW, varsI, varsC, varsR>>
    /\ lotCollector.urls.pc = "open"
    /\ lotCollector.urls.saves < MaxSaveCalls
    /\ \E imgs \in ImageLists :
         LET r == saveImages([lotCollector.urls EXCEPT !.saves = @ + 1],
                             lotsDisk.imageUrls, imgs, 1)
         IN  /\ lotCollector' = [lotCollector EXCEPT !.urls = r.urls]
             /\ lotsDisk' = [lotsDisk EXCEPT !.imageUrls = r.file]
    /\ UNCHANGED lotsEnv

\* the end of run: imageUrlsStream.end()
UrlLogEnd ==
    /\ UNCHANGED <<varsM, varsW, varsI, varsC, varsR>>
    /\ lotCollector.urls.pc = "open"
    /\ lotCollector' = [lotCollector EXCEPT !.urls.pc = "ended"]
    /\ UNCHANGED <<lotsEnv, lotsDisk>>

\* npm run collect-lots once more
UrlLogRerun ==
    /\ UNCHANGED <<varsM, varsW, varsI, varsC, varsR>>
    /\ lotCollector.urls.pc = "ended" /\ lotCollector.urls.run < MaxUrlRuns
    /\ lotCollector' = [lotCollector EXCEPT !.urls = FreshUrls(lotCollector.urls.run + 1)]
    /\ UNCHANGED <<lotsEnv, lotsDisk>>

NextUrlLog ==
    \/ UrlLogInitialize
    \/ UrlLogSaveImages
    \/ UrlLogEnd
    \/ UrlLogRerun

NextLotPages ==
    \/ FetchLotsCall
    \/ FetchLotsAttempt

NextLots ==
    \/ LotsStart
    \/ LotsStep
    \/ LotsFinal
    \/ LotsSignal
    \/ LotsRerun

(***************************************************************************)
(* Phase 3: ImageCollector (lib/logger.js, second script).                 *)
(* A lot file is named by its lot id; lotFiles[i] is LotFileAt(i).         *)
(***************************************************************************)
lotFiles == [k \in 1..NumLots |-> 200 + k]
LotFileAt(idx) == lotFiles[idx + 1]

FreshImageCollector(r) ==
    [pc |-> "init", run |-> r, shouldStop |-> FALSE,
     checkpoint |-> [loaded |-> FALSE, lastProcessedLot |-> 0],
     processedLots |-> {},
     statsProcessedLots |-> 0, skippedLots |-> 0, errors |-> 0,
     i |-> 0, batchCount |-> 0, attempt |-> 0,
     stopped |-> FALSE, handled |-> {}, failedLots |-> {},
     \* history: the lots whose request was answered with a 404 in this run
     notFound |-> {}]

InitI ==
    /\ imageCollector = FreshImageCollector(1)
    /\ imagesDisk = [checkpoint |-> [exists |-> FALSE, lastProcessedLot |-> 0,
                                     processedLots |-> {}],
                     imagesFiles |-> {}, imagesData |-> {}, failing |-> FALSE]

\* lotData.auction_id of a lot file: lots 201 and 202 are of auction 101, ...
auctionOfLot(lotId) == 101 + ((lotId - 201) \div 2)

\* initialize, getAllLotFiles and the choice of startIndex in run
ImagesStart ==
    /\ UNCHANGED <<varsM, varsW, varsL, varsC, varsR>>
    /\ imageCollector.pc = "init"
    /\ LET cp == IF imagesDisk.checkpoint.exists
                 THEN [loaded |-> TRUE,
                       lastProcessedLot |-> imagesDisk.checkpoint.lastProcessedLot]
                 ELSE imageCollector.checkpoint
           loadedLots == IF imagesDisk.checkpoint.exists
                         THEN imagesDisk.checkpoint.processedLots ELSE {}
           startIndex == IF cp.loaded /\ cp.lastProcessedLot # 0
                         THEN findIndex(lotFiles, cp.lastProcessedLot)
                         ELSE 0
       IN  imageCollector' = [imageCollector EXCEPT
               !.pc = IF startIndex < 0 THEN "exit1" ELSE "loop",
               !.checkpoint = cp, !.processedLots = loadedLots, !.i = startIndex]
    /\ UNCHANGED imagesDisk

\* ImageCollector.saveCheckpoint
ImagesSaveCheckpoint(d, c, lastProcessedLot) ==
    [d EXCEPT !.checkpoint = [exists |-> TRUE, lastProcessedLot |-> lastProcessedLot,
                              processedLots |-> c.processedLots]]

\* the rest of a pass of run's loop once processLot has returned: the batch
\* counter, the checkpoint of a full batch or of the last lot, the next index
\* When the write of saveCheckpoint is rejected, run rejects and the entry point's
\* catch calls process.exit(1).
AfterLot(c, d) ==
    LET save == c.batchCount + 1 >= ImagesBatchSize \/ c.i = Len(lotFiles) - 1
    IN  IF save /\ d.failing
        THEN [collector |-> [c EXCEPT !.batchCount = @ + 1, !.attempt = 0,
                                      !.pc = "exit1",
                                      !.handled = @ \cup {LotFileAt(c.i)}],
              disk |-> d]
        ELSE [collector |-> [c EXCEPT !.batchCount = IF save THEN 0 ELSE @ + 1,
                                      !.i = @ + 1, !.attempt = 0, !.pc = "loop",
                                      !.handled = @ \cup {LotFileAt(c.i)}],
              disk |-> IF save THEN ImagesSaveCheckpoint(d, c, LotFileAt(c.i)) ELSE d]

\* the catch block of processLot: stats.errors++, then await logError, which
\* appends to the log file; when the append is rejected the rejection leaves
\* processLot and run, and the entry point's catch calls process.exit(1)
ProcessLotCatch(c, d) ==
    LET counted == [c EXCEPT !.errors = @ + 1,
                             !.failedLots = @ \cup {LotFileAt(c.i)}]
    IN  IF d.failing
        THEN [collector |-> [counted EXCEPT !.attempt = 0, !.pc = "exit1"], disk |-> d]
        ELSE AfterLot(counted, d)

\* processLot with the test of the images file left out
imagesFileNeverExists(d, lotId) == FALSE

\* fsSync.existsSync(imagesFilePath) in processLot
imagesFileExists(d, lotId) == lotId \in d.imagesFiles

\* top of a pass of run's loop and the part of processLot before the request
ImagesStep ==
    /\ UNCHANGED <<varsM, varsW, varsL, varsC, varsR>>
    /\ imageCollector.pc = "loop"
    /\ LET c == imageCollector
           lotId == LotFileAt(c.i)
       IN  IF c.i >= Len(lotFiles)
           THEN /\ imageCollector' = [c EXCEPT !.pc = "done"]
                /\ UNCHANGED imagesDisk
           ELSE IF c.shouldStop
           THEN /\ imageCollector' = [c EXCEPT !.pc = "done", !.stopped = TRUE]
                /\ UNCHANGED imagesDisk
           ELSE IF lotId \in c.processedLots
           THEN LET r == AfterLot([c EXCEPT !.skippedLots = @ + 1], imagesDisk)
                IN  imageCollector' = r.collector /\ imagesDisk' = r.disk
           ELSE IF imagesFileExists(imagesDisk, lotId)
           THEN LET r == AfterLot([c EXCEPT !.skippedLots = @ + 1,
                                            !.processedLots = @ \cup {lotId}], imagesDisk)
                IN  imageCollector' = r.collector /\ imagesDisk' = r.disk
           ELSE /\ imageCollector' = [c EXCEPT !.pc = "fetch", !.attempt = 0]
                /\ UNCHANGED imagesDisk

\* fetchImagesForLot with the 404 test left out: a 404 is not ok and is thrown
ReturnsImagesDataOnlyIfOk(reply) == reply = "ok"

\* the replies for which fetchImagesForLot returns: a 404 (no images for this lot)
\* and an ok response; any other is thrown to the catch block of the attempt
ReturnsImagesData(reply) == reply \in {"404", "ok"}

\* what processLot writes to the images file: the answer (for a 404 data = [],
\* here its length) with lotId and auctionId added
outputData(lotId, reply) ==
    [data |-> IF reply = "404" THEN 0 ELSE 1,
     lotId |-> lotId, auctionId |-> auctionOfLot(lotId)]

\* one attempt of fetchImagesForLot and, when it is the last, the rest of
\* processLot: the images file is written for an answer (a 404 is an answer with
\* no images); an error at attempt IMAGES_MAX_RETRIES, or a rejected write of the
\* images file, is thrown to processLot's catch
ImagesAttempt ==
    /\ UNCHANGED <<varsM, varsW, varsL, varsC, varsR>>
    /\ imageCollector.pc = "fetch"
    /\ \E reply \in {"ok", "404", "error"} :
         LET lotId == LotFileAt(imageCollector.i)
             c == [imageCollector EXCEPT
                     !.notFound = IF reply = "404" THEN @ \cup {lotId} ELSE @]
         IN  IF ~ReturnsImagesData(reply)
             THEN IF c.attempt = IMAGES_MAX_RETRIES
                  THEN LET r == ProcessLotCatch(c, imagesDisk)
                       IN  imageCollector' = r.collector /\ imagesDisk' = r.disk
                  ELSE /\ imageCollector' = [c EXCEPT !.attempt = @ + 1]
                       /\ UNCHANGED imagesDisk
             ELSE IF imagesDisk.failing
             THEN LET r == ProcessLotCatch(c, imagesDisk)
                  IN  imageCollector' = r.collector /\ imagesDisk' = r.disk
             ELSE LET r == AfterLot([c EXCEPT !.statsProcessedLots = @ + 1,
                                              !.processedLots = @ \cup {lotId}],
                                    [imagesDisk EXCEPT
                                       !.imagesFiles = @ \cup {lotId},
                                       !.imagesData = @ \cup {outputData(lotId, reply)}])
                  IN  imageCollector' = r.collector /\ imagesDisk' = r.disk

\* SIGINT or SIGTERM: setupGracefulShutdown's handler
ImagesSignal ==
    /\ UNCHANGED <<varsM, varsW, varsL, varsC, varsR>>
    /\ imageCollector.pc \in {"init", "loop", "fetch"}
    /\ ~imageCollector.shouldStop
    /\ imageCollector' = [imageCollector EXCEPT !.shouldStop = TRUE]
    /\ UNCHANGED imagesDisk

\* npm run collect-images once more
ImagesRerun ==
    /\ UNCHANGED <<varsM, varsW, varsL, varsC, varsR>>
    /\ imageCollector.pc \in {"done", "exit1"} /\ imageCollector.run < MaxImagesRuns
    /\ imageCollector' = FreshImageCollector(imageCollector.run + 1)
    /\ UNCHANGED imagesDisk

NextImages ==
    \/ ImagesStart
    \/ ImagesStep
    \/ ImagesAttempt
    \/ ImagesSignal
    \/ ImagesRerun

\* the volume of the data directory fills up: from now on fs.writeFile and
\* fs.appendFile reject (ENOSPC)
DiskFills ==
    /\ UNCHANGED <<varsM, varsW, varsL, varsC, varsR>>
    /\ imageCollector.pc \in {"init", "loop", "fetch"}
    /\ ~imagesDisk.failing
    /\ imagesDisk' = [imagesDisk EXCEPT !.failing = TRUE]
    /\ UNCHANGED imageCollector

NextImagesDiskFull ==
    \/ ImagesStart
    \/ ImagesStep
    \/ ImagesAttempt
    \/ ImagesSignal
    \/ ImagesRerun
    \/ DiskFills


(***************************************************************************)
(* APIClient.makeRequest (unnamed/part_004).                               *)
(***************************************************************************)
\* what the server may answer to one fetch: a status, a 200 whose body is not
\* JSON (response.json() rejects), or nothing (fetch rejects)
ClientAnswers == {"200", "404", "429", "500", "400", "network", "badjson"}

\* config.MAX_RETRIES and config.RETRY_BACKOFF, read by the constructor
maxRetries == 3
retryBackoff == <<1000, 2000, 4000>>

\* response.headers.get('retry-after') || 60, for an answer without the header
retryAfter == 60

\* config.REQUEST_DELAY_MS, read by the constructor as requestDelay
REQUEST_DELAY_MS == 300

FreshClient(answers) ==
    [pc |-> "call", answers |-> answers, attempt |-> 0, fetches |-> 0,
     result |-> [kind |-> "none", of |-> 0], slept |-> <<>>, errorLogged |-> FALSE,
     \* the clock (Date.now(), ms; the process starts later than requestDelay after
     \* the epoch), this.lastRequestTime, how long a fetch may take, and the start
     \* and end of every fetch made
     now |-> REQUEST_DELAY_MS, lastRequestTime |-> 0, durations |-> {0},
     calls |-> 0, requests |-> <<>>]

InitC ==
    client \in {FreshClient(a) : a \in [1..ClientAnswersLen -> ClientAnswers]}

\* APIClient.rateLimit: sleep until requestDelay after lastRequestTime, then set
\* lastRequestTime to the clock
rateLimit(c) ==
    LET timeSinceLastRequest == c.now - c.lastRequestTime
        woken == IF timeSinceLastRequest < REQUEST_DELAY_MS
                 THEN c.now + (REQUEST_DELAY_MS - timeSinceLastRequest)
                 ELSE c.now
    IN  [c EXCEPT !.now = woken, !.lastRequestTime = woken]

\* APIClient.sleep
sleep(c, ms) == [c EXCEPT !.slept = Append(@, ms), !.now = @ + ms]

\* makeRequest up to its loop: await this.rateLimit()
ClientCall ==
    /\ UNCHANGED <<varsM, varsW, varsL, varsI, varsR>>
    /\ client.pc = "call"
    /\ client' = [rateLimit(client) EXCEPT !.pc = "loop", !.calls = @ + 1]

\* the backoff of the catch block: this.retryBackoff[attempt] || 4000
backoffTime(attempt) ==
    IF attempt + 1 <= Len(retryBackoff) THEN retryBackoff[attempt + 1] ELSE 4000

\* the for statement's update and test after a pass that did not return
NextAttempt(c) ==
    IF c.attempt + 1 <= maxRetries
    THEN [c EXCEPT !.attempt = @ + 1]
    ELSE [c EXCEPT !.attempt = @ + 1, !.pc = "returned",
                   !.result = [kind |-> "null", of |-> 0]]

\* a catch block that passes the error of the last attempt on to the caller
catchBlockRethrows(c, n) ==
    IF c.attempt = maxRetries
    THEN [c EXCEPT !.pc = "returned", !.result = [kind |-> "thrown", of |-> n]]
    ELSE NextAttempt(sleep(c, backoffTime(c.attempt)))

\* the catch block of makeRequest, after fetch number n: the last attempt logs
\* the error and returns null, an earlier one sleeps the backoff
catchBlock(c, n) ==
    IF c.attempt = maxRetries
    THEN [c EXCEPT !.pc = "returned", !.result = [kind |-> "null", of |-> n],
                   !.errorLogged = TRUE]
    ELSE NextAttempt(sleep(c, backoffTime(c.attempt)))

\* one pass of makeRequest's for loop: the fetch and what its answer leads to
ClientAttempt ==
    /\ UNCHANGED <<varsM, varsW, varsL, varsI, varsR>>
    /\ client.pc = "loop"
    /\ client.fetches < Len(client.answers)
    /\ \E duration \in client.durations :
       LET n == client.fetches + 1
           answer == client.answers[n]
           c == [client EXCEPT
                   !.fetches = n,
                   !.requests = Append(@, [start |-> client.now,
                                           end |-> client.now + duration]),
                   !.now = @ + duration]
       IN  client' =
             CASE answer = "404" ->
                    [c EXCEPT !.pc = "returned", !.result = [kind |-> "null", of |-> n]]
               [] answer = "429" ->
                    NextAttempt(sleep(c, retryAfter * 1000))
               [] answer = "200" ->
                    [c EXCEPT !.pc = "returned", !.result = [kind |-> "data", of |-> n]]
               [] OTHER -> catchBlock(c, n)

\* the caller issues its next request as soon as makeRequest has returned
\* (fetchAuctionSet, fetchAuctionItems: one makeRequest per page)
ClientNextCall ==
    /\ UNCHANGED <<varsM, varsW, varsL, varsI, varsR>>
    /\ client.pc = "returned"
    /\ client.fetches < Len(client.answers)
    /\ client' = [client EXCEPT !.pc = "call", !.attempt = 0, !.errorLogged = FALSE,
                                !.result = [kind |-> "none", of |-> 0]]

\* a sequence of requests through one APIClient, with fetches that take no time
\* or SlowFetchMs
InitRateLimit ==
    client \in {[FreshClient(a) EXCEPT !.durations = {0, SlowFetchMs}] :
                   a \in [1..ClientAnswersLen -> {"200", "404", "429", "500"}]}

NextRateLimit ==
    \/ ClientCall
    \/ ClientAttempt
    \/ ClientNextCall

NextClient ==
    \/ ClientCall
    \/ ClientAttempt


(***************************************************************************)
(* The four scripts are separate processes over separate files.  Each      *)
(* specification runs one of them; the others have not been started.       *)
(***************************************************************************)
IdleM ==
    /\ proc = "notStarted"
    /\ run = 1
    /\ config = [CONCURRENT_UPLOADS |-> 1, CHECKPOINT_EVERY_N_IMAGES |-> 1,
                 MAX_UPLOAD_RETRIES |-> 0]
    /\ faults = FALSE
    /\ lotData = <<>>
    /\ s3 = {}
    /\ disk = [state |-> "absent", data |-> EmptyCheckpoint]
    /\ writes = <<>>
    /\ lastSaved = [valid |-> FALSE, data |-> EmptyCheckpoint, killedAfter |-> FALSE]
    /\ FreshMemory

IdleW ==
    /\ weeklyEnv = [END_DATE |-> 0, upstream |-> <<>>]
    /\ weekly = FreshWeekly(1, "none", {})
    /\ outputFile = [exists |-> FALSE, partial |-> FALSE, auctions |-> {}]

IdleL ==
    /\ lotsEnv = [auctions |-> <<>>]
    /\ lotCollector = FreshLotCollector(1)
    /\ lotsDisk = [checkpoint |-> [exists |-> FALSE, lastProcessedAuctionId |-> 0],
                   auctionFiles |-> {}, lotsDirs |-> {}, imageUrls |-> <<>>]

IdleC ==
    client = FreshClient(<<>>)

IdleR ==
    rangesCall = FreshRangesCall(0, 0)

IdleI ==
    /\ imageCollector = FreshImageCollector(1)
    /\ imagesDisk = [checkpoint |-> [exists |-> FALSE, lastProcessedLot |-> 0,
                                     processedLots |-> {}],
                     imagesFiles |-> {}, imagesData |-> {}, failing |-> FALSE]

NextRun ==
    \/ MigrateStart
    \/ MigrateLoop
    \/ ExtractDone
    \/ PoolStep
    \/ \E j \in 1..Len(unit) : HeadReply(j)
    \/ \E j \in 1..Len(unit) : AttemptReply(j)
    \/ \E j \in 1..Len(unit) : Callback(j)
    \/ PoolResume
    \/ MarkDone
    \/ \E k \in 1..Len(writes) : WriteDone(k)
    \/ Signal
    \/ TimerFire

\* one run of the migration script
\* one run of the migration script
InitSpec == InitM /\ IdleW /\ IdleL /\ IdleI /\ IdleC /\ IdleR

Spec == InitSpec /\ [][NextRun]_vars

\* the steps of the program itself: promise jobs that are ready to run
ProgramStep ==
    \/ MigrateStart
    \/ MigrateLoop
    \/ PoolStep
    \/ \E j \in 1..Len(unit) : Callback(j)
    \/ PoolResume
    \/ MarkDone

\* One run of the migration script in which the event loop runs the jobs that are
\* ready, the timer fires when the loop is free and the file system completes the
\* writes it was given.  Nothing is assumed of the source and of the bucket: a
\* HEAD, a fetch or an upload may never be answered.
SpecDrain ==
    /\ InitSpec
    /\ [][NextRun]_vars
    /\ WF_vars(ProgramStep)
    /\ WF_vars(TimerFire)
    /\ WF_vars(\E k \in 1..Len(writes) : WriteDone(k))

NextResume ==
    \/ NextRun
    \/ Kill
    \/ Restart

\* runs of the migration script, killed and started again
SpecResume == InitSpec /\ [][NextResume]_vars

\* One run over one lot file of PoolUnits units whose objects are all in the
\* bucket, with the documented configuration and 1, 5 or 10 concurrent uploads.
InitPool ==
    /\ proc = "running"
    /\ run = 1
    /\ config \in [CONCURRENT_UPLOADS : PoolSizes,
                    CHECKPOINT_EVERY_N_IMAGES : {DefaultCheckpointEvery},
                    MAX_UPLOAD_RETRIES : {DefaultMaxRetries}]
    /\ faults = FALSE
    /\ lotData = << [j \in 1..PoolUnits |-> j] >>
    /\ s3 = 1..PoolUnits
    /\ disk = [state |-> "absent", data |-> EmptyCheckpoint]
    /\ writes = <<>>
    /\ lastSaved = [valid |-> FALSE, data |-> EmptyCheckpoint, killedAfter |-> FALSE]
    /\ FreshMemory

NextPool ==
    \/ MigrateStart
    \/ MigrateLoop
    \/ ExtractDone
    \/ PoolStep
    \/ \E j \in 1..Len(unit) : HeadReply(j)
    \/ \E j \in 1..Len(unit) : Callback(j)
    \/ PoolResume
    \/ MarkDone
    \/ \E k \in 1..Len(writes) : WriteDone(k)

InitSpecPool == InitPool /\ IdleW /\ IdleL /\ IdleI /\ IdleC /\ IdleR

SpecPool == InitSpecPool /\ [][NextPool]_vars

\* One run over one lot file of RetryUnits units, none of them in the bucket,
\* with a source and a bucket that may fail, and no signal.
InitRetry ==
    /\ proc = "running"
    /\ run = 1
    /\ config \in [CONCURRENT_UPLOADS : 1..MaxConcurrency,
                    CHECKPOINT_EVERY_N_IMAGES : {SmallCheckpointEvery},
                    MAX_UPLOAD_RETRIES : {SmallMaxRetries}]
    /\ faults = TRUE
    /\ lotData = << [j \in 1..RetryUnits |-> j] >>
    /\ s3 = {}
    /\ disk = [state |-> "absent", data |-> EmptyCheckpoint]
    /\ writes = <<>>
    /\ lastSaved = [valid |-> FALSE, data |-> EmptyCheckpoint, killedAfter |-> FALSE]
    /\ FreshMemory

NextRetry ==
    \/ MigrateStart
    \/ MigrateLoop
    \/ ExtractDone
    \/ PoolStep
    \/ \E j \in 1..Len(unit) : HeadReply(j)
    \/ \E j \in 1..Len(unit) : AttemptReply(j)
    \/ \E j \in 1..Len(unit) : Callback(j)
    \/ PoolResume
    \/ MarkDone
    \/ \E k \in 1..Len(writes) : WriteDone(k)

InitSpecRetry == InitRetry /\ IdleW /\ IdleL /\ IdleI /\ IdleC /\ IdleR

SpecRetry == InitSpecRetry /\ [][NextRetry]_vars

\* One run over lot files whose units repeat keys of earlier units, so that
\* several units of one file are already in uploadedImages when the pool starts
\* them.
RepeatLayouts ==
    { << <<1>>, <<1, 1>> >>,
      << <<1, 2>>, <<1, 2>> >>,
      << <<1, 2, 1>> >> }

InitRepeat ==
    /\ proc = "running"
    /\ run = 1
    /\ config \in [CONCURRENT_UPLOADS : 1..MaxConcurrency,
                    CHECKPOINT_EVERY_N_IMAGES : {SmallCheckpointEvery},
                    MAX_UPLOAD_RETRIES : {SmallMaxRetries}]
    /\ faults = TRUE
    /\ lotData \in RepeatLayouts
    /\ s3 \in SUBSET {1, 2}
    /\ disk = [state |-> "absent", data |-> EmptyCheckpoint]
    /\ writes = <<>>
    /\ lastSaved = [valid |-> FALSE, data |-> EmptyCheckpoint, killedAfter |-> FALSE]
    /\ FreshMemory

InitSpecRepeat == InitRepeat /\ IdleW /\ IdleL /\ IdleI /\ IdleC /\ IdleR

SpecRepeat == InitSpecRepeat /\ [][NextRetry]_vars

\* one call of APIClient.makeRequest
InitSpecClient == InitC /\ IdleM /\ IdleW /\ IdleL /\ IdleI /\ IdleR

SpecClient == InitSpecClient /\ [][NextClient]_vars

\* requests one after the other through one APIClient, on a clock
InitSpecRateLimit == InitRateLimit /\ IdleM /\ IdleW /\ IdleL /\ IdleI /\ IdleR

SpecRateLimit == InitSpecRateLimit /\ [][NextRateLimit]_vars

\* runs of the phase-1 script
\* generateWeeklyRanges applied to every startDate <= endDate of the bounds
InitSpecRanges == InitR /\ IdleM /\ IdleW /\ IdleL /\ IdleI /\ IdleC

SpecRanges == InitSpecRanges /\ [][NextRanges]_vars

InitSpecWeekly == InitW /\ IdleM /\ IdleL /\ IdleI /\ IdleC /\ IdleR

SpecWeekly == InitSpecWeekly /\ [][NextWeekly]_vars

\* runs of the phase-2 collector
InitSpecLots == InitL /\ IdleM /\ IdleW /\ IdleI /\ IdleC /\ IdleR

SpecLots == InitSpecLots /\ [][NextLots]_vars

\* one call of fetchLotsForAuction; every fetch it awaits is settled (answered
\* or failed) in the end
InitSpecLotPages == IdleM /\ IdleW /\ IdleL /\ IdleI /\ IdleC /\ IdleR

SpecLotPages == InitSpecLotPages /\ [][NextLotPages]_vars /\ WF_vars(NextLotPages)

\* runs of the lot collector, of which only the URL log is followed
InitSpecUrlLog == IdleM /\ IdleW /\ IdleL /\ IdleI /\ IdleC /\ IdleR

SpecUrlLog == InitSpecUrlLog /\ [][NextUrlLog]_vars

\* runs of the phase-3 collector
InitSpecImages == InitI /\ IdleM /\ IdleW /\ IdleL /\ IdleC /\ IdleR

SpecImages == InitSpecImages /\ [][NextImages]_vars

\* a lot file that an earlier run of phase 3 processed and that is no longer
\* under data/lots when this run scans it
RemovedLot == 200 + NumLots + 1

\* Phase 3 started on the checkpoint and the images files of an earlier run,
\* after which lot files may have been removed from data/lots: the checkpoint
\* names the lot that run processed last, which may be the removed one.
InitStale ==
    /\ imageCollector = FreshImageCollector(1)
    /\ \E last \in Range(lotFiles) \cup {RemovedLot},
          done \in SUBSET (Range(lotFiles) \cup {RemovedLot}) :
         /\ last \in done
         /\ imagesDisk = [checkpoint |-> [exists |-> TRUE, lastProcessedLot |-> last,
                                          processedLots |-> done],
                          imagesFiles |-> done \ {RemovedLot},
                          imagesData |-> {outputData(lotId, "ok") :
                                            lotId \in done \ {RemovedLot}},
                          failing |-> FALSE]

InitSpecImagesStale == InitStale /\ IdleM /\ IdleW /\ IdleL /\ IdleC /\ IdleR

SpecImagesStale == InitSpecImagesStale /\ [][NextImages]_vars

\* One run without a signal in which the event loop runs what is ready, every
\* HEAD, fetch and upload is answered (with success or with an error) and every
\* write completes.
SpecRepeatFair == InitSpecRepeat /\ [][NextRetry]_vars /\ WF_vars(NextRetry)

\* phase 3 on a volume that may fill up during the run
SpecImagesDiskFull == InitSpecImages /\ [][NextImagesDiskFull]_vars


(***************************************************************************)
(* Properties.                                                             *)
(***************************************************************************)
\* the processImage operations that have started and whose callback has not run
Started == {j \in 1..Len(unit) : unit[j].st \notin {"idle", "done"}}

\* C1: a lot file is in processedLotFiles only when every transfer unit extracted
\* from it has a terminal outcome (success, failed or skipped), also when a
\* shutdown signal arrived while the file was read or processed.  (Spec)
C1_GroupMarkedAfterAllUnitsTerminal ==
    (pc = "saveWait" /\ toProcess[i] \in checkpoint.processedLotFiles)
        => \A j \in 1..Len(unit) : unit[j].status # "none"

\* C2: when the lot collector was stopped by a signal after it processed auctions
\* up to one that is not the last, the checkpoint on disk names the last auction
\* it processed, so that the next run starts right after it.  (SpecLots)
C2_StopCheckpointNamesLastProcessed ==
    (lotCollector.pc = "done" /\ lotCollector.stopped /\ lotCollector.lastProcessed >= 0)
        => /\ lotsDisk.checkpoint.exists
           /\ lotsDisk.checkpoint.lastProcessedAuctionId
                  = AuctionAt(lotCollector.lastProcessed)

\* C3: at most CONCURRENT_UPLOADS processImage operations are started and not
\* completed, for 1, 5 and 10, in any completion order; and a unit is admitted
\* only in a state where fewer than CONCURRENT_UPLOADS are in flight.  (SpecPool)
C3_PoolNeverExceedsCeiling ==
    /\ [](Cardinality(Started) <= CONCURRENT_UPLOADS
            /\ Cardinality(inFlight) <= CONCURRENT_UPLOADS)
    /\ [][index' > index =>
            /\ Cardinality(inFlight) < CONCURRENT_UPLOADS
            /\ Cardinality(inFlight') <= CONCURRENT_UPLOADS]_vars

\* C3 witness: with 10 concurrent uploads the pool is full again after the 11th
\* unit was admitted, which took a completion
C3_FullPoolRefilled ==
    /\ CONCURRENT_UPLOADS = 10
    /\ index > 10
    /\ Cardinality(inFlight) = 10
    /\ Cardinality(Started) = 10

\* C4: once the source has answered 404 for a unit, no further fetch is made for
\* that unit.  (Spec)
C4_NotFoundIsNotRetried ==
    \A j \in 1..Len(unit) :
        unit[j].notFoundAt # 0 => unit[j].fetches = unit[j].notFoundAt

\* C5: every unit contributes to one of successfulUploads, failedUploads and
\* skippedUploads once: their sum never exceeds the number of transfer units,
\* whatever the completion order, the retries and the restarts.  (SpecResume)
C5_EachUnitCountedOnce ==
    totalProcessed <= SumLen(lotData)

\* C6: after the process was killed and started again, the checkpoint it loads
\* holds the progress of the last save that completed: its processed lot files
\* and its uploaded keys.  (SpecResume)
C6_RestartKeepsLastSave ==
    (proc = "running" /\ pc # "start" /\ lastSaved.valid /\ lastSaved.killedAfter)
        => /\ lastSaved.data.processedLotFiles \subseteq checkpoint.processedLotFiles
           /\ lastSaved.data.uploadedImages \subseteq checkpoint.uploadedImages

\* C7: a run of the pipeline after a run that completed, against the same
\* upstream data, writes nothing: here, phase 1 does not write its output file
\* again.  (SpecWeekly)
C7_RerunWritesNothing ==
    (weekly.run > 1 /\ weekly.prevExit = "exit0") => weekly.fileWrites = 0

\* C8: when the image collector returns after a signal stopped it, the checkpoint
\* on disk contains every lot processed so far.  (SpecImages)
C8_StopPersistsCheckpoint ==
    (imageCollector.pc = "done" /\ imageCollector.stopped)
        => /\ imagesDisk.checkpoint.exists
           /\ imageCollector.processedLots \subseteq imagesDisk.checkpoint.processedLots

\* C9: a lot whose image fetch failed after all retries has an images file (with
\* zero items) once processLot has returned.  (SpecImages)
C9_FailedLotHasImagesFile ==
    \A lotId \in imageCollector.failedLots : lotId \in imagesDisk.imagesFiles

\* C10: when the weekly traversal ends, every window was requested and every
\* window has its entry in weeklyStats, a failed window one with zero items.
\* (SpecWeekly)
C10_TraversalContinuesAfterFailure ==
    weekly.pc \in {"exit0", "exit1"}
        => /\ weekly.requested = 1..Len(weeklyRanges)
           /\ Len(weekly.weeklyStats) = Len(weeklyRanges)

\* the answers before the first that is not a 429
RECURSIVE Leading429(_, _)
Leading429(answers, k) ==
    IF k < Len(answers) /\ answers[k + 1] = "429" THEN Leading429(answers, k + 1) ELSE k

\* C11: a request answered by k 429 responses and then a 200 returns the data of
\* that 200 response, for every k: a 429 takes no attempt of the retry budget.
\* (SpecClient)
C11_RateLimitedThenOkReturnsData ==
    LET k == Leading429(client.answers, 0)
    IN  (client.pc = "returned" /\ k < Len(client.answers)
            /\ client.answers[k + 1] = "200")
           => client.result = [kind |-> "data", of |-> k + 1]

\* C12: at every instant the migration's checkpoint file is absent or holds a
\* complete checkpoint that parses, also after the process was killed or has
\* exited with saves outstanding.  (SpecResume)
C12_CheckpointFileAbsentOrComplete ==
    disk.state \in {"absent", "ok"}

\* the units that get their failed outcome in a step
NewlyFailed ==
    IF Len(unit') = Len(unit)
    THEN {j \in 1..Len(unit) : unit[j].status = "none" /\ unit'[j].status = "failed"}
    ELSE {}

WithStatus(st) == {j \in 1..Len(unit) : unit[j].status = st}

\* the units that get their success outcome in a step
NewlySucceeded ==
    IF Len(unit') = Len(unit)
    THEN {j \in 1..Len(unit) : unit[j].status = "none" /\ unit'[j].status = "success"}
    ELSE {}

\* C14: a unit whose attempts failed r <= MAX_RETRIES times and whose next attempt
\* is answered 200 is fetched r + 1 times and succeeds: it is counted once in
\* successfulUploads, and a unit that was fetched is counted as failed only after
\* MAX_RETRIES + 1 fetches; at the end of the run each counter equals the number
\* of units with that outcome.  (SpecRetry)
C14_TransientFailuresThenSuccess ==
    /\ [](\A j \in 1..Len(unit) :
            /\ unit[j].status = "success"
                 => unit[j].fetches = unit[j].retryCount + 1
                      /\ unit[j].retryCount <= MAX_RETRIES
            /\ (unit[j].status = "failed" /\ unit[j].fetches > 0)
                 => unit[j].fetches = MAX_RETRIES + 1)
    /\ []((proc = "exited0" /\ pc = "summary")
            => /\ checkpoint.successfulUploads = Cardinality(WithStatus("success"))
               /\ checkpoint.failedUploads = Cardinality(WithStatus("failed"))
               /\ checkpoint.skippedUploads = Cardinality(WithStatus("skipped")))
    /\ [][\A j \in NewlySucceeded :
              /\ checkpoint'.successfulUploads = checkpoint.successfulUploads + 1
              /\ checkpoint'.failedUploads = checkpoint.failedUploads
              /\ checkpoint'.failures = checkpoint.failures]_vars

\* C14 witness: three units, the second failed twice and then succeeded; the run
\* ends with succeeded 3, failed 0, skipped 0
C14_SecondUnitRetriedTwice ==
    /\ proc = "exited0" /\ pc = "summary"
    /\ Len(unit) = 3
    /\ unit[1].fetches = 1 /\ unit[2].fetches = 3 /\ unit[3].fetches = 1
    /\ unit[2].retryCount = 2
    /\ checkpoint.successfulUploads = 3
    /\ checkpoint.failedUploads = 0
    /\ checkpoint.skippedUploads = 0

\* C15: once shutdownRequested is set no transfer unit is started: a unit that
\* is past its start after a step was past it before; and no unit in flight is
\* cancelled: it leaves inFlight by its callback only, as long as the process
\* runs.  (Spec)
C15_NoStartAfterShutdown ==
    [][shutdownRequested =>
         /\ \A j \in 1..Len(unit') :
               unit'[j].st # "idle" => (j <= Len(unit) /\ unit[j].st # "idle")
         /\ proc' = "running" =>
               \A j \in inFlight : j \in inFlight' \/ unit'[j].st = "done"]_vars

\* C15 witness: the signal came while the first unit was in flight; that unit
\* ran on to success, the pool drained, and the second unit was never started
C15_DrainedWithUnitNotStarted ==
    /\ shutdownRequested /\ pc = "awaitAll"
    /\ index = 1 /\ Len(images) = 2
    /\ unit[1].st = "done" /\ unit[1].status = "success"
    /\ unit[2].st = "idle"

C17_RerunSkipsCompletedWindows ==
    (weekly.run > 1 /\ weekly.prevExit = "exit1")
        => weekly.requested \cap weekly.completedBefore = {}


(***************************************************************************)
(* C18.  For every startDate <= endDate the windows generateWeeklyRanges   *)
(* returns are contiguous (each window's end is the next window's start),  *)
(* do not overlap (a later window starts no earlier than an earlier one    *)
(* ends), together cover exactly the days startDate..endDate, are at most  *)
(* 7 days wide, and the last window ends at endDate.                       *)
(***************************************************************************)
C18_WindowsCoverRangeExactly ==
    rangesCall.pc = "returned" =>
        LET r == rangesCall.ranges
            n == Len(r)
        IN  /\ n >= 1
            /\ r[1].start = rangesCall.startDate
            /\ r[n].end = rangesCall.endDate
            /\ \A k \in 1..n : r[k].start <= r[k].end /\ r[k].end - r[k].start <= 7
            /\ \A k \in 1..(n - 1) : r[k].end = r[k + 1].start
            /\ \A j, k \in 1..n : j < k => r[j].end <= r[k].start
            /\ UNION {(r[k].start)..(r[k].end) : k \in 1..n}
                   = (rangesCall.startDate)..(rangesCall.endDate)

\* a call returned several windows, the last one shorter than 7 days
C18_ReturnedWithShorterLastWindow ==
    /\ rangesCall.pc = "returned"
    /\ Len(rangesCall.ranges) >= 2
    /\ LET last == rangesCall.ranges[Len(rangesCall.ranges)]
       IN  last.end - last.start \in 1..6


(***************************************************************************)
(* C19.  Whatever windows fetchAllAuctionsByWeek has merged, allAuctions   *)
(* holds exactly one entry per distinct auction id the merged windows      *)
(* returned, also when two or more windows returned the same id.           *)
(***************************************************************************)
MergedWindows ==
    {k \in 1..(weekly.i - 1) : weeklyEnv.upstream[k].kind = "ok"}

C19_OneEntryPerDistinctId ==
    LET m == weekly.allAuctions
    IN  /\ \A j, k \in 1..Len(m) : j # k => m[j].id # m[k].id
        /\ MapKeys(m) = UNION {weeklyEnv.upstream[k].ids : k \in MergedWindows}

\* two merged windows returned the same id
C19_SameIdMergedFromTwoWindows ==
    \E j, k \in MergedWindows :
        /\ j # k
        /\ weeklyEnv.upstream[j].ids \cap weeklyEnv.upstream[k].ids # {}


(***************************************************************************)
(* C20.  A run that met per-item errors still ends with exit code 0.  For  *)
(* the phase-1 script: a run that ended after a window failed (the listing *)
(* API answered with a status that is not ok, or not at all) ended with    *)
(* process.exit(0).                                                        *)
(***************************************************************************)
FailedWindows == {k \in weekly.requested : Throws(weeklyEnv.upstream[k])}

C20_FailedWindowStillExitsZero ==
    (weekly.pc \in {"exit0", "exit1"} /\ FailedWindows # {}) => weekly.pc = "exit0"


(***************************************************************************)
(* C21.  A failure while fetching or saving one lot's images is caught at  *)
(* that lot, increments the error counter once, and the loop goes on to    *)
(* the next lot: the failure does not abort the run.                       *)
(***************************************************************************)
C21_UnitFailureCountedAndPassed ==
    [][imageCollector'.failedLots \ imageCollector.failedLots # {} =>
           /\ imageCollector'.errors = imageCollector.errors + 1
           /\ imageCollector'.i = imageCollector.i + 1
           /\ imageCollector'.pc = "loop"]_vars


(***************************************************************************)
(* C22.  makeRequest never throws: whatever the server answers it makes at *)
(* most maxRetries + 1 fetches and what the caller gets is data or null;   *)
(* when every attempt failed (5xx, another status that is not ok, a body   *)
(* that does not parse, no answer) it has logged the error and returns     *)
(* null.                                                                   *)
(***************************************************************************)
FailedAnswers == {"500", "400", "network", "badjson"}

C22_MakeRequestNeverThrows ==
    /\ client.fetches <= maxRetries + 1
    /\ client.result.kind \in {"none", "data", "null"}
    /\ (client.pc = "returned") = (client.result.kind # "none")
    /\ (/\ client.pc = "returned"
        /\ \A k \in 1..client.fetches : client.answers[k] \in FailedAnswers)
           => /\ client.result.kind = "null"
              /\ client.fetches = maxRetries + 1
              /\ client.errorLogged

\* returned after every attempt failed, with a server error and a network error
\* among the failures
C22_ReturnedAfterAllAttemptsFailed ==
    /\ client.pc = "returned"
    /\ client.fetches = maxRetries + 1
    /\ \A k \in 1..client.fetches : client.answers[k] \in FailedAnswers
    /\ \E j, k \in 1..client.fetches :
          client.answers[j] = "500" /\ client.answers[k] = "network"


(***************************************************************************)
(* C23.  What makeRequest returns lets the caller tell a 404 (there is     *)
(* legitimately no data) from a failure after the retries are exhausted:   *)
(* a call ended by a 404 does not return the value that a call returns     *)
(* whose attempts all failed.                                              *)
(***************************************************************************)
\* the value returned by the catch block on the last attempt
ReturnedWhenExhausted ==
    catchBlock([FreshClient(<<>>) EXCEPT !.attempt = maxRetries],
               maxRetries + 1).result.kind

C23_NotFoundDistinctFromExhausted ==
    (/\ client.pc = "returned"
     /\ client.fetches >= 1
     /\ client.answers[client.fetches] = "404")
        => client.result.kind # ReturnedWhenExhausted


(***************************************************************************)
(* C24.  Between the end of one request issued through APIClient and the   *)
(* start of the next at least REQUEST_DELAY_MS elapses, for every pair of  *)
(* consecutive requests.                                                   *)
(***************************************************************************)
C24_GapBetweenEndAndNextStart ==
    \A k \in 1..(Len(client.requests) - 1) :
        client.requests[k + 1].start - client.requests[k].end >= REQUEST_DELAY_MS


(***************************************************************************)
(* C30.  APIClient advances lastRequestTime on every attempt, each retry   *)
(* inside makeRequest included: once a fetch has been made,                *)
(* lastRequestTime is the time the latest fetch was started.               *)
(***************************************************************************)
C30_LastRequestTimeIsLatestAttempt ==
    Len(client.requests) >= 1 =>
        client.lastRequestTime = client.requests[Len(client.requests)].start


(***************************************************************************)
(* C25.  In phase 3 a 404 from the images endpoint is not retried and is a *)
(* valid empty result: the step that receives it ends processLot with the  *)
(* lot's images file written (data = [], lot and auction id embedded),     *)
(* the lot counted as processed and no error counted.                      *)
(***************************************************************************)
NewlyNotFound == imageCollector'.notFound \ imageCollector.notFound

C25_NotFoundIsEmptyResult ==
    [][\A lotId \in NewlyNotFound :
          /\ imageCollector'.pc = "loop"
          /\ imageCollector'.i = imageCollector.i + 1
          /\ imageCollector'.errors = imageCollector.errors
          /\ imageCollector'.statsProcessedLots = imageCollector.statsProcessedLots + 1
          /\ lotId \in imageCollector'.processedLots
          /\ lotId \in imagesDisk'.imagesFiles
          /\ [data |-> 0, lotId |-> lotId, auctionId |-> auctionOfLot(lotId)]
                \in imagesDisk'.imagesData]_vars

\* a lot whose request was answered 404 has its empty images file, no error was
\* counted, and a later lot has been handled after it
C25_NotFoundAfterRetryThenNextLot ==
    \E lotId \in imageCollector.notFound :
        /\ [data |-> 0, lotId |-> lotId, auctionId |-> auctionOfLot(lotId)]
              \in imagesDisk.imagesData
        /\ imageCollector.errors = 0
        /\ \E later \in imageCollector.handled : later > lotId


(***************************************************************************)
(* C26.  The failure list kept in the transfer checkpoint is capped: it    *)
(* never holds more than the kept number of entries (1000 in the code,     *)
(* FailuresKept here).                                                     *)
(***************************************************************************)
C26_FailureListCapped ==
    Len(checkpoint.failures) <= FailuresKept


(***************************************************************************)
(* C27.  processImage for a key already in checkpoint.uploadedImages makes *)
(* no existence check and no fetch and counts the unit as skipped; for a   *)
(* key not in the set that the existence check finds in the destination    *)
(* store it makes no fetch, adds the key to uploadedImages and counts the  *)
(* unit as skipped.                                                        *)
(***************************************************************************)
C27_SkipsWithoutFetch ==
    [][Len(unit') = Len(unit) =>
        \A j \in 1..Len(unit) :
          /\ (/\ unit[j].st = "idle" /\ unit'[j].st # "idle"
              /\ images[j] \in checkpoint.uploadedImages)
                => /\ unit'[j] = [IdleUnit EXCEPT !.st = "resolved", !.status = "skipped"]
                   /\ checkpoint'.skippedUploads > checkpoint.skippedUploads
                   /\ s3' = s3
          /\ (/\ unit[j].st = "head" /\ unit'[j] # unit[j]
              /\ images[j] \in s3 /\ unit'[j].status # "failed")
                => /\ unit'[j] = [IdleUnit EXCEPT !.st = "resolved", !.status = "skipped"]
                   /\ images[j] \in checkpoint'.uploadedImages
                   /\ checkpoint'.skippedUploads = checkpoint.skippedUploads + 1
                   /\ s3' = s3]_vars

\* one at a time, two units of the same key were skipped: the first found in the
\* destination store, the second found in uploadedImages
C27_SkippedByStoreThenBySet ==
    /\ config.CONCURRENT_UPLOADS = 1
    /\ Len(images) = 2 /\ images[1] = images[2]
    /\ Len(unit) = 2
    /\ \A j \in 1..2 : unit[j].status = "skipped" /\ unit[j].fetches = 0
    /\ checkpoint.skippedUploads = 2
    /\ images[1] \in checkpoint.uploadedImages


(***************************************************************************)
(* C28.  In phase 2 an auction is skipped without fetching its lots only   *)
(* if the resume checkpoint marks it done and its lots are present on      *)
(* disk: when a run that no signal stopped has ended, every auction whose  *)
(* lots it did not fetch is at or before the checkpoint it resumed from    *)
(* and has its lots on disk.                                               *)
(***************************************************************************)
MarkedDone(auctionId) ==
    /\ lotCollector.checkpoint.loaded
    /\ findIndex(auctions, auctionId)
          <= findIndex(auctions, lotCollector.checkpoint.lastProcessedAuctionId)

C28_SkippedOnlyIfDoneAndPresent ==
    (lotCollector.pc = "done" /\ ~lotCollector.stopped) =>
        \A k \in 1..Len(auctions) :
            auctions[k] \notin lotCollector.fetchedLots
                => MarkedDone(auctions[k]) /\ lotsExist(auctions[k])


(***************************************************************************)
(* C29.  The transfer engine saves the checkpoint after every N completed  *)
(* units, N = CHECKPOINT_EVERY_N_IMAGES: whenever the number of completed  *)
(* units (succeeded + failed + skipped) reaches a multiple of N, a save is *)
(* issued for that multiple, whatever the completion order.  A save        *)
(* carries the counters of the moment it is issued, so the count must not  *)
(* pass a multiple of N between two completion callbacks, and a callback   *)
(* that finds a multiple must issue the save.                              *)
(***************************************************************************)
CompletedUnits(c) == c.successfulUploads + c.failedUploads + c.skippedUploads

C29_SaveIssuedAtEveryMultiple ==
    [][/\ \A m \in (CompletedUnits(checkpoint) + 1)..CompletedUnits(checkpoint') :
            m % CHECKPOINT_EVERY_N_IMAGES = 0 => CompletedUnits(checkpoint') = m
       /\ (/\ Len(results') = Len(results) + 1
           /\ CompletedUnits(checkpoint) % CHECKPOINT_EVERY_N_IMAGES = 0)
             => /\ Len(writes') = Len(writes) + 1
                /\ writes'[Len(writes')].data = CheckpointData(checkpoint)]_vars


\* C31: in phase 3, when processLot is called for a lot whose id is in
\* processedLots or whose images file is on disk, it issues no request (the
\* collector does not go to the fetch), writes no images file and leaves the
\* existing ones unchanged, and counts the lot as skipped.  (A step that only
\* sets shouldStop is the signal handler's, not processLot's.)
SkipsLot ==
    /\ imageCollector.pc = "loop"
    /\ imageCollector.i < Len(lotFiles)
    /\ ~imageCollector.shouldStop
    /\ \/ LotFileAt(imageCollector.i) \in imageCollector.processedLots
       \/ LotFileAt(imageCollector.i) \in imagesDisk.imagesFiles

C31_SkippedLotNoRequestNoWrite ==
    [][(SkipsLot /\ imageCollector'.shouldStop = imageCollector.shouldStop) =>
          /\ imageCollector'.pc # "fetch"
          /\ imagesDisk'.imagesFiles = imagesDisk.imagesFiles
          /\ imagesDisk'.imagesData = imagesDisk.imagesData
          /\ imageCollector'.skippedLots = imageCollector.skippedLots + 1
          /\ imageCollector'.statsProcessedLots = imageCollector.statsProcessedLots
          /\ imageCollector'.errors = imageCollector.errors]_vars

\* witness: in a second run every lot handled so far was skipped, one of them
\* because of its images file alone (the saved checkpoint does not list it)
C31_SkippedByFileAndBySet ==
    /\ imageCollector.run = 2
    /\ imageCollector.skippedLots >= 1
    /\ imageCollector.handled # {}
    /\ imageCollector.statsProcessedLots = 0
    /\ imageCollector.errors = 0
    /\ imageCollector.handled \subseteq imagesDisk.imagesFiles
    /\ \E lotId \in imageCollector.handled :
          lotId \notin imagesDisk.checkpoint.processedLots

C33_UrlLoggedAtMostOnce ==
    /\ \A h, k \in 1..Len(lotsDisk.imageUrls) :
          h # k => lotsDisk.imageUrls[h] # lotsDisk.imageUrls[k]
    /\ lotCollector.urls.uniqueImages = lotCollector.urls.written

\* C34: the index at which ImageCollector.run resumes is a position of the
\* scanned lot list (0 <= startIndex <= length), also when the checkpoint's
\* lastProcessedLot matches no scanned file, and the run does not fail.
C34_StartIndexInRange ==
    /\ imageCollector.i \in 0..Len(lotFiles)
    /\ imageCollector.pc # "exit1"

\* C35: within one run each destination key is uploaded at most once, also
\* when two units of one lot file with the same key are in flight together: an
\* upload completes only for a key not yet in uploadedImages, and
\* successfulUploads never exceeds the number of keys in uploadedImages.
C35_EachKeyUploadedOnce ==
    /\ checkpoint.successfulUploads <= Cardinality(checkpoint.uploadedImages)
    /\ \A j, k \in 1..Len(unit) :
          (j # k /\ unit[j].status = "success" /\ unit[k].status = "success")
              => images[j] # images[k]

\* C36: no two fs.writeFile calls of saveCheckpoint are in flight together, and
\* once no save is outstanding the checkpoint file holds the most recent
\* state: the lot files marked processed in memory are those in the file.
C36_OneSaveInFlightFileIsLatest ==
    /\ Len(writes) <= 1
    /\ (proc = "running" /\ pc # "start" /\ writes = <<>> /\ disk.state = "ok")
          => disk.data.processedLotFiles = checkpoint.processedLotFiles

\* C37: a phase-3 run that resumes from the saved checkpoint and meets no
\* failing lot (healthy upstream) and no signal leaves every scanned lot file
\* with an images file, also the lots that failed in the run before.
C37_ResumedRunFillsFailedLots ==
    (/\ imageCollector.run > 1
     /\ imageCollector.checkpoint.loaded
     /\ imageCollector.pc = "done"
     /\ ~imageCollector.stopped
     /\ imageCollector.errors = 0)
        => Range(lotFiles) \subseteq imagesDisk.imagesFiles

\* C38: in every reachable state of the transfer engine every key of
\* checkpoint.uploadedImages is in the destination store, and no step of a
\* running process removes a key from the set.
C38_UploadedKeysAreInStore ==
    /\ [](checkpoint.uploadedImages \subseteq s3)
    /\ [][(proc' = "running" /\ run' = run)
             => checkpoint.uploadedImages \subseteq checkpoint'.uploadedImages]_vars

\* witness: in a second process, of the units of a lot file one was uploaded
\* and another, with another key, was skipped; both keys are in the set
C38_UploadedAndSkippedAfterRestart ==
    /\ run = 2
    /\ \E j, k \in 1..Len(unit) :
          /\ unit[j].status = "success" /\ images[j] \in checkpoint.uploadedImages
          /\ unit[k].status = "skipped" /\ images[k] \in checkpoint.uploadedImages
          /\ images[j] # images[k]

\* C39: with CONCURRENT_UPLOADS >= 1, no shutdown request and every started
\* unit completing, processImagesWithConcurrency returns for every list of
\* units, and when it returns there is exactly one result per unit.
C39_PoolReturnsOneResultPerUnit ==
    /\ (pc = "pool") ~> (pc = "mark")
    /\ [](pc = "mark" =>
            /\ Len(results) = Len(images)
            /\ inFlight = {}
            /\ \A j \in 1..Len(unit) : unit[j].st = "done")

\* witness: the pool has returned for a lot file of three units, of which one
\* was skipped and one failed
C39_ReturnedWithSkippedAndFailed ==
    /\ pc = "mark"
    /\ Len(images) = 3
    /\ Len(results) = 3
    /\ \E j, k \in 1..3 : results[j] = "skipped" /\ results[k] = "failed"

\* C40: for startDate < endDate every window generateWeeklyRanges returns is
\* non-empty (its start is strictly before its end), also when
\* endDate - startDate is a multiple of 7 days.
C40_EveryWindowNonEmpty ==
    (rangesCall.pc = "returned" /\ rangesCall.startDate < rangesCall.endDate)
        => \A k \in 1..Len(rangesCall.ranges) :
              rangesCall.ranges[k].start < rangesCall.ranges[k].end
====
